---- MODULE Spec2Model ----
(***************************************************************************)
(* Rusby Wallet background service worker (extension/background.js):       *)
(* request routing, pending-approval lifecycle, session persistence.       *)
(*                                                                         *)
(* Every JavaScript task (a handler run from its start, or from a resumed  *)
(* await, up to the next await that leaves the microtask queue) is one     *)
(* action.  chrome.storage.local is an ordered queue of operations: a set  *)
(* carries the snapshot taken when persistState was called, a get reads    *)
(* when it reaches the head of the queue.                                  *)
(***************************************************************************)
EXTENDS Integers, Sequences, FiniteSets, TLC

\* ------------------------------------------------------------- bounds
MaxReq == 2        \* crypto.randomUUID() draws per execution
MaxPorts == 2      \* content-script connections per execution
MaxIO == 2         \* storage operations in flight
MaxBridge == 2     \* pairing-client calls in flight
MaxKills == 1      \* service-worker terminations per execution
MaxProviderReq == 2   \* request() calls on one provider instance

\* ------------------------------------------------------------- input domains
Origins == {"https://a.example", "https://b.example"}
Tabs == {1}
NoTab == 0                       \* tabId null / undefined
CallIds == {11}                  \* inpage request ids (caller-supplied)
WcCallIds == {21}                \* pairing-protocol request ids
Topics == {"topic"}
AccountLists == {<<"0xa1">>, <<"0xa2", "0xa1">>}
NoAccounts == <<>>
SigResult == <<"0xsig">>         \* opaque result of a signing request
NoResult == <<"undefined">>      \* result field absent from the message
EmptyParams == "[]"
Params == {"p"}
SignMethods == {"eth_sendTransaction", "personal_sign", "eth_signTypedData_v4"}
NoPid == "none"
Pids == {"pid"}
DefaultChain == "0x1"
KnownChains == {"0x1", "0x89", "0x38", "0xa", "0x2105", "0xa4b1"}
NoParams == "undefined"          \* the message carries no params
NoChainId == "[{}]"              \* params[0] carries no chainId
NullResult == <<"null">>         \* result: null
\* params of wallet_switchEthereumChain: absent, empty, without a chainId, or
\* [{chainId}], written as the chainId itself
SwitchParams == {NoParams, EmptyParams, NoChainId, "0x5"} \cup KnownChains

RuntimeId == "rusby-extension"                   \* chrome.runtime.id
SenderIds == {RuntimeId, "other-extension"}     \* sender.id
BackgroundTarget == "rusby-background"
Targets == {BackgroundTarget, "rusby-popup"}    \* msg.target

WcOrigin(topic) == "walletconnect:" \o topic

VARIABLES
  walletLocked,      \* let walletLocked
  pendingRequests,   \* Map requestId -> entry
  approvedOrigins,   \* object origin -> [address]
  activeChainId,
  activeAccounts,
  wcInitialized,
  wcPendingProposals, \* Map proposalId -> proposal
  wcListeners,       \* how many times the three rusbyWC.on(...) were registered
  contentPorts,      \* Map tabId -> port
  storage,           \* chrome.storage.local: the five session keys
  wcProjectId,       \* chrome.storage.local: wc_project_id
  ioQ,               \* storage operations issued and not yet performed
  bridgeQ,           \* handlers suspended in rusbyWC.respondRequest/rejectRequest
  ports,             \* every port ever connected: tab, origin, open
  nextReq,           \* number of request ids drawn so far
  kills,             \* number of terminations so far
  provider,          \* the page's RusbyProvider: _requestId, _pending, and what
                     \* became of each request() promise (history)
  wcItems,           \* chrome.storage.local: the other keys that start with wc_
  written,           \* what the adapter's setItem wrote and removeItem has not
                     \* removed since (history)
  hist,              \* per request id: what was delivered for it (history)
  ev                 \* the last handler event and its reply (history)

outside == <<provider, wcItems, written>>
mem == <<walletLocked, pendingRequests, approvedOrigins, activeChainId,
         activeAccounts, wcInitialized, wcPendingProposals, wcListeners, contentPorts>>
vars == <<walletLocked, pendingRequests, approvedOrigins, activeChainId,
          activeAccounts, wcInitialized, wcPendingProposals, wcListeners, contentPorts, storage, wcProjectId,
          ioQ, bridgeQ, ports, nextReq, kills, outside, hist, ev>>

\* ------------------------------------------------------------- helpers
Without(f, k) == [x \in DOMAIN f \ {k} |-> f[x]]
With(f, k, v) == [x \in DOMAIN f \cup {k} |-> IF x = k THEN v ELSE f[x]]
EmptyMap == [x \in {} |-> x]

\* ------------------------------------------------------------- records
\* A pending entry.  Fields a page-sourced entry does not have (source and the
\* wc* fields) hold "" / 0; tabId null or undefined is NoTab.
PageEntry(id, method, params, origin, tabId, requestId) ==
  [id |-> id, method |-> method, params |-> params, origin |-> origin,
   tabId |-> tabId, requestId |-> requestId,
   source |-> "", wcTopic |-> "", wcRequestId |-> 0, wcChainId |-> ""]

WcEntry(id, method, params, topic, chainId, requestId) ==
  [id |-> id, method |-> method, params |-> params, origin |-> WcOrigin(topic),
   tabId |-> NoTab, requestId |-> requestId,
   source |-> "walletconnect", wcTopic |-> topic, wcRequestId |-> id,
   wcChainId |-> chainId]

\* Replies: what a handler returns (to the port, or to the approval surface).
Result(v) == [kind |-> "result", result |-> v, code |-> 0, message |-> ""]
Error(c, m) == [kind |-> "error", result |-> NoResult, code |-> c, message |-> m]
Deferred == [kind |-> "deferred", result |-> NoResult, code |-> 0, message |-> ""]
PopupError(m) == [kind |-> "popup_error", result |-> NoResult, code |-> 0, message |-> m]
NoReply == [kind |-> "none", result |-> NoResult, code |-> 0, message |-> ""]

\* The last message handled: a page call (op "dapp": port, id, method, params as
\* arg) or an approval-surface message (op "approve"/"reject": requestId as
\* rid, result as arg), with what the handler answered at once.
Event(op, port, id, method, origin, rid, arg, reply) ==
  [op |-> op, port |-> port, id |-> id, method |-> method, origin |-> origin,
   rid |-> rid, arg |-> arg, reply |-> reply]
NoEvent == Event("init", 0, 0, "", "", 0, <<>>, NoReply)

\* The argument of chrome.storage.local.set in persistState.
Snapshot(ao, chain, locked, accts, pend) ==
  [present |-> TRUE, approvedOrigins |-> ao, activeChainId |-> chain,
   walletLocked |-> locked, activeAccounts |-> accts, pendingRequests |-> pend]
NoData ==
  [present |-> FALSE, approvedOrigins |-> EmptyMap, activeChainId |-> DefaultChain,
   walletLocked |-> TRUE, activeAccounts |-> NoAccounts, pendingRequests |-> EmptyMap]

\* Continuation of a handler suspended on a storage operation.
Cont(pc, rid, op) == [pc |-> pc, rid |-> rid, op |-> op]
NoCont == Cont("none", 0, "")
SetOp(data, k) == [op |-> "set", data |-> data, k |-> k, pid |-> NoPid]
GetOp(k) == [op |-> "get", data |-> NoData, k |-> k, pid |-> NoPid]
\* chrome.storage.local.set({ wc_project_id: msg.projectId })
PidOp(pid, k) == [op |-> "set_pid", data |-> NoData, k |-> k, pid |-> pid]

\* ------------------------------------------------------------- dispatcher
Authorized(origin) == origin \in DOMAIN approvedOrigins

EthAccountsIgnoringLock(origin) ==
  IF ~Authorized(origin) THEN Result(NoAccounts) ELSE Result(approvedOrigins[origin])

\* case 'eth_accounts'
EthAccounts(origin) ==
  IF walletLocked \/ ~Authorized(origin)
  THEN Result(NoAccounts)
  ELSE Result(approvedOrigins[origin])

SignOutcomeOriginFirst(origin) ==
  IF ~Authorized(origin) THEN Error(4100, "Not connected")
  ELSE IF walletLocked THEN Error(4100, "Wallet locked")
  ELSE Deferred

\* case 'eth_sendTransaction' / 'personal_sign' / 'eth_signTypedData_v4'
SignOutcome(origin) ==
  IF walletLocked THEN Error(4100, "Wallet locked")
  ELSE IF ~Authorized(origin) THEN Error(4100, "Not connected")
  ELSE Deferred

RequestAccountsIgnoringLock(origin) ==
  IF Authorized(origin) THEN Result(approvedOrigins[origin]) ELSE Deferred

\* handleRequestAccounts
RequestAccountsOutcome(origin) ==
  IF walletLocked THEN Deferred
  ELSE IF Authorized(origin) THEN Result(approvedOrigins[origin])
  ELSE Deferred

\* String(parseInt(activeChainId, 16)), for the chain ids activeChainId takes
NetVersion(chain) ==
  CASE chain = "0x1" -> "1"
    [] chain = "0x89" -> "137"
    [] chain = "0x38" -> "56"
    [] chain = "0xa" -> "10"
    [] chain = "0x2105" -> "8453"
    [] chain = "0xa4b1" -> "42161"

DappOutcomeDeferUnknown(method, origin) ==
  IF method = "eth_requestAccounts" THEN RequestAccountsOutcome(origin)
  ELSE IF method = "eth_accounts" THEN EthAccounts(origin)
  ELSE IF method = "eth_chainId" THEN Result(<<activeChainId>>)
  ELSE IF method = "net_version" THEN Result(<<NetVersion(activeChainId)>>)
  ELSE IF method \in SignMethods THEN SignOutcome(origin)
  ELSE IF method = "wallet_addEthereumChain"
  THEN Error(4200, "Custom chains not supported")
  ELSE Deferred

\* handleDappMessage, for the methods that do not change the chain
DappOutcome(method, origin) ==
  IF method = "eth_requestAccounts" THEN RequestAccountsOutcome(origin)
  ELSE IF method = "eth_accounts" THEN EthAccounts(origin)
  ELSE IF method = "eth_chainId" THEN Result(<<activeChainId>>)
  ELSE IF method = "net_version" THEN Result(<<NetVersion(activeChainId)>>)
  ELSE IF method \in SignMethods THEN SignOutcome(origin)
  ELSE IF method = "wallet_addEthereumChain"
  THEN Error(4200, "Custom chains not supported")
  ELSE Error(4200, "Method not supported: " \o method)

\* !params || !params[0] || !params[0].chainId
HasChainId(params) == params \notin {NoParams, EmptyParams, NoChainId}

HandleSwitchChainLenient(params) ==
  IF ~HasChainId(params) THEN Error(-32602, "Invalid params")
  ELSE Result(NullResult)

\* handleSwitchChain: what it returns
HandleSwitchChain(params) ==
  IF ~HasChainId(params) THEN Error(-32602, "Invalid params")
  ELSE IF params \notin KnownChains THEN Error(4902, "Unrecognized chain ID")
  ELSE Result(NullResult)

SwitchChainIgnoringOrigin(origin, params) == HandleSwitchChain(params)

\* case 'wallet_switchEthereumChain'
SwitchChainOutcome(origin, params) ==
  IF ~Authorized(origin) THEN Error(4100, "Not connected")
  ELSE HandleSwitchChain(params)

\* The params enqueueForApproval is called with.
EnqueueParams(method, params) ==
  IF method = "eth_requestAccounts" THEN EmptyParams ELSE params

\* ------------------------------------------------------------- approval engine
TableSizeId == Cardinality(DOMAIN pendingRequests) + 1

\* crypto.randomUUID(): an identifier never drawn before.
FreshId == nextReq + 1

\* pendingRequests.get(requestId)
Found(rid) == rid \in DOMAIN pendingRequests

GrantAnyMethod(req, result) ==
  IF result # NoResult THEN With(approvedOrigins, req.origin, result)
  ELSE approvedOrigins

GrantFirstOnly(req, result) ==
  IF req.method = "eth_requestAccounts" /\ result # NoResult
     /\ req.origin \notin DOMAIN approvedOrigins
  THEN With(approvedOrigins, req.origin, result)
  ELSE approvedOrigins

\* if (req.method === 'eth_requestAccounts' && result) approvedOrigins[req.origin] = result
Grant(req, result) ==
  IF req.method = "eth_requestAccounts" /\ result # NoResult
  THEN With(approvedOrigins, req.origin, result)
  ELSE approvedOrigins

\* if (req.source === 'walletconnect' && wcInitialized)
UsesBridge(req) == req.source = "walletconnect" /\ wcInitialized

\* contentPorts.get(req.tabId): the set holding the port, or no port
PortFor(req) ==
  IF req.tabId \in DOMAIN contentPorts THEN {contentPorts[req.tabId]} ELSE {}

\* port.postMessage({ id: req.id, result })
ApproveMsg(req, result) == [id |-> req.id, body |-> Result(result)]

RejectMsgByRequestId(req) ==
  [id |-> req.requestId, body |-> Error(4001, "User rejected request")]

\* port.postMessage({ id: req.id, error: { code: 4001, ... } })
RejectMsg(req) == [id |-> req.id, body |-> Error(4001, "User rejected request")]

RemovedNothing(rid) == pendingRequests

\* pendingRequests.delete(requestId)
Removed(rid) == Without(pendingRequests, rid)

\* Array.from(pendingRequests.values())
GetPending == {pendingRequests[r] : r \in DOMAIN pendingRequests}

\* The restoreState of this process start has not resumed yet.
Restoring == \E j \in DOMAIN ioQ : ioQ[j].op = "get" /\ ioQ[j].k.pc = "startup"

\* History of one request id; early: it was enqueued while the startup
\* restoreState was still waiting for storage.
NewHist(entry) ==
  [entry |-> entry, msgs |-> {}, posts |-> 0, calls |-> {}, bridge |-> 0,
   popups |-> 0, failed |-> FALSE, via |-> "", done |-> FALSE, early |-> Restoring]
Posted(h, p, msg) ==
  [h EXCEPT !.msgs = @ \cup {[port |-> p, id |-> msg.id, body |-> msg.body]},
            !.posts = @ + 1, !.via = "channel"]
Called(h, kind, req) ==
  [h EXCEPT !.calls = @ \cup {[kind |-> kind, topic |-> req.wcTopic, id |-> req.wcRequestId]},
            !.bridge = @ + 1, !.via = "bridge"]

\* ------------------------------------------------------------- injected provider
\* What became of a request() promise: resolve(result) or reject(err), where
\* err.code 0 stands for an Error without a code (the timeout's).
Outcome(how, code, result, message) ==
  [how |-> how, code |-> code, result |-> result, message |-> message]
TimedOut == Outcome("reject", 0, NoResult, "Request timeout")

\* The last call into the provider (history): request(), a 'response' message
\* from the content script, or a timer callback.
ProviderCall(op, id, method, msg) == [op |-> op, id |-> id, method |-> method, msg |-> msg]

\* constructor: _requestId = 0, _pending = new Map(), chainId = null,
\* selectedAddress = null, _connected = false.  pending maps an id to the
\* method of its request, timers holds the ids whose setTimeout callback has
\* not run yet, and settled (history) holds, for every id drawn, the
\* settlements of its promise in order.
NewProvider ==
  [requestId |-> 0, pending |-> EmptyMap, timers |-> {}, settled |-> EmptyMap,
   chainId |-> NoResult, selectedAddress |-> "", connected |-> FALSE,
   last |-> ProviderCall("new", 0, "", NoReply)]

ProviderMethods == {"eth_requestAccounts", "eth_chainId", "personal_sign"}
ProviderResults == {NoResult, NoAccounts, <<"0xa1">>}
ProviderErrorCodes == {0, 4001}     \* 0: the error object carries no code
ResponseIds == 1..(MaxProviderReq + 1)

\* a result that is not null / undefined is truthy, the empty array included
Truthy(result) == result # NoResult
\* msg.result[0] || null
FirstOrNull(result) == IF Len(result) > 0 THEN result[1] ELSE ""
\* msg.error.code || -32603
ErrorCode(code) == IF code = 0 THEN -32603 ELSE code

\* request({ method, params }): const id = ++this._requestId; the entry is
\* stored, the call is posted to the content script and the timer is armed.
ProviderRequest(method) ==
  /\ provider.requestId < MaxProviderReq
  /\ LET id == provider.requestId + 1
     IN provider' = [provider EXCEPT
                       !.requestId = id,
                       !.pending = With(@, id, method),
                       !.timers = @ \cup {id},
                       !.settled = With(@, id, << >>),
                       !.last = ProviderCall("request", id, method, NoReply)]
  /\ UNCHANGED <<mem, storage, wcProjectId, ioQ, bridgeQ, ports, nextReq, kills,
                 wcItems, written, hist, ev>>

\* the setTimeout callback of request(): if (this._pending.has(id)) { delete; reject }
ProviderTimeout(id) ==
  /\ id \in provider.timers
  /\ provider' =
       IF id \in DOMAIN provider.pending
       THEN [provider EXCEPT
               !.timers = @ \ {id},
               !.pending = Without(@, id),
               !.settled[id] = Append(@, TimedOut),
               !.last = ProviderCall("timeout", id, "", NoReply)]
       ELSE [provider EXCEPT
               !.timers = @ \ {id},
               !.last = ProviderCall("timeout", id, "", NoReply)]
  /\ UNCHANGED <<mem, storage, wcProjectId, ioQ, bridgeQ, ports, nextReq, kills,
                 wcItems, written, hist, ev>>

\* this._pending.delete(msg.id)
PendingAfterResponseKept(pending, id) == pending
PendingAfterResponse(pending, id) == Without(pending, id)

\* _handleResponse(msg): msg is a 'response' message, msg.reply its error or
\* result.
ProviderResponse(id, reply) ==
  /\ provider' =
       IF id \notin DOMAIN provider.pending
       THEN [provider EXCEPT !.last = ProviderCall("response", id, "", reply)]
       ELSE LET method == provider.pending[id]
                connects == method = "eth_requestAccounts" /\ Truthy(reply.result)
            IN IF reply.kind = "error"
               THEN [provider EXCEPT
                       !.pending = PendingAfterResponse(@, id),
                       !.settled[id] =
                          Append(@, Outcome("reject", ErrorCode(reply.code),
                                            NoResult, reply.message)),
                       !.last = ProviderCall("response", id, method, reply)]
               ELSE [provider EXCEPT
                       !.pending = PendingAfterResponse(@, id),
                       !.selectedAddress =
                          IF connects THEN FirstOrNull(reply.result) ELSE @,
                       !.connected = IF connects THEN TRUE ELSE @,
                       !.chainId =
                          IF method = "eth_chainId" /\ Truthy(reply.result)
                          THEN reply.result ELSE @,
                       !.settled[id] =
                          Append(@, Outcome("resolve", 0, reply.result, "")),
                       !.last = ProviderCall("response", id, method, reply)]
  /\ UNCHANGED <<mem, storage, wcProjectId, ioQ, bridgeQ, ports, nextReq, kills,
                 wcItems, written, hist, ev>>

\* ------------------------------------------------------------- storage adapter
\* A chrome.storage.local key is the sequence of its pieces: the three
\* characters of the adapter's prefix one by one, any other name whole.
WcPrefix == <<"w", "c", "_">>
ProjectIdKey == WcPrefix \o <<"project_id">>        \* 'wc_project_id'
SessionKeys ==                                       \* the keys of persistState
  {<<"approvedOrigins">>, <<"activeChainId">>, <<"walletLocked">>,
   <<"activeAccounts">>, <<"pendingRequests">>}
AdapterKeys == {<<"pairing">>, <<"session">>}        \* keys the pairing client uses
AdapterValues == {"v1", "v2"}
Null == "null"

StorageKey(key) == WcPrefix \o key                   \* `wc_${key}`
StartsWithWc(k) == Len(k) >= 3 /\ SubSeq(k, 1, 3) = WcPrefix   \* k.startsWith('wc_')
Slice3(k) == SubSeq(k, 4, Len(k))                    \* k.slice(3)

\* chrome.storage.local.get(null): everything stored, whoever stored it
AllKeys ==
  (IF storage.present THEN SessionKeys ELSE {})
    \cup (IF wcProjectId # NoPid THEN {ProjectIdKey} ELSE {})
    \cup DOMAIN wcItems
AllValue(k) == IF k \in DOMAIN wcItems THEN wcItems[k] ELSE wcProjectId

\* getItem(key): result[`wc_${key}`] ?? null
GetItem(key) ==
  IF StorageKey(key) \in AllKeys THEN AllValue(StorageKey(key)) ELSE Null
\* getKeys(): Object.keys(all).filter(k => k.startsWith('wc_')).map(k => k.slice(3))
GetKeys == {Slice3(k) : k \in {x \in AllKeys : StartsWithWc(x)}}
\* getEntries(): the same filter and slice(3) on Object.entries(all)
GetEntries == [key \in GetKeys |-> AllValue(StorageKey(key))]

\* setItem(key, value): chrome.storage.local.set({ [`wc_${key}`]: value })
AdapterSetItem(key, value) ==
  /\ wcItems' = With(wcItems, StorageKey(key), value)
  /\ written' = With(written, key, value)
  /\ UNCHANGED <<mem, storage, wcProjectId, ioQ, bridgeQ, ports, nextReq, kills,
                 provider, hist, ev>>

\* removeItem(key): chrome.storage.local.remove(`wc_${key}`)
AdapterRemoveItem(key) ==
  /\ wcItems' = Without(wcItems, StorageKey(key))
  /\ written' = Without(written, key)
  /\ UNCHANGED <<mem, storage, wcProjectId, ioQ, bridgeQ, ports, nextReq, kills,
                 provider, hist, ev>>

\* ------------------------------------------------------------- initial state
Init ==
  /\ walletLocked = TRUE
  /\ pendingRequests = EmptyMap
  /\ approvedOrigins = EmptyMap
  /\ activeChainId = DefaultChain
  /\ activeAccounts = NoAccounts
  /\ wcInitialized = FALSE
  /\ wcPendingProposals = EmptyMap
  /\ wcListeners = 0
  /\ contentPorts = EmptyMap
  /\ storage = NoData
  /\ wcProjectId \in Pids \cup {NoPid}
  /\ ioQ = <<GetOp(Cont("startup", 0, ""))>>      \* restoreState().then(...)
  /\ bridgeQ = << >>
  /\ ports = << >>
  /\ nextReq = 0
  /\ kills = 0
  /\ hist = EmptyMap
  /\ provider = NewProvider
  /\ wcItems = EmptyMap
  /\ written = EmptyMap
  /\ ev = NoEvent

\* ------------------------------------------------------------- channel registry
\* chrome.runtime.onConnect: a content script of a page of origin o in tab t
Connect(t, o) ==
  /\ Len(ports) < MaxPorts
  /\ ports' = Append(ports, [tab |-> t, origin |-> o, open |-> TRUE, last |-> "",
                           broken |-> FALSE])
  /\ contentPorts' = IF t # NoTab THEN With(contentPorts, t, Len(ports) + 1)
                      ELSE contentPorts
  /\ UNCHANGED <<walletLocked, pendingRequests, approvedOrigins, activeChainId,
                 activeAccounts, wcInitialized, wcPendingProposals, wcListeners, storage, wcProjectId, ioQ, bridgeQ,
                 nextReq, kills, outside, hist, ev>>

\* port.onDisconnect: contentPorts.delete(tabId)
Disconnect(p) ==
  /\ p \in DOMAIN ports
  /\ ports[p].open
  /\ ports' = [ports EXCEPT ![p].open = FALSE]
  /\ contentPorts' = IF ports[p].tab # NoTab THEN Without(contentPorts, ports[p].tab)
                      ELSE contentPorts
  /\ UNCHANGED <<walletLocked, pendingRequests, approvedOrigins, activeChainId,
                 activeAccounts, wcInitialized, wcPendingProposals, wcListeners, storage, wcProjectId, ioQ, bridgeQ,
                 nextReq, kills, outside, hist, ev>>

\* The page context behind port p is gone and its onDisconnect has not been
\* dispatched yet: the port is still registered, postMessage on it throws.
PortFails(p) ==
  /\ p \in DOMAIN ports
  /\ ports[p].open /\ ~ports[p].broken
  /\ ports' = [ports EXCEPT ![p].broken = TRUE]
  /\ UNCHANGED <<mem, storage, wcProjectId, ioQ, bridgeQ, nextReq, kills, outside, hist, ev>>

\* broadcastEvent(event, data): every registered port receives it; a throwing
\* postMessage is caught
Broadcast(event) ==
  [p \in DOMAIN ports |->
     IF (\E t \in DOMAIN contentPorts : contentPorts[t] = p) /\ ~ports[p].broken
     THEN [ports[p] EXCEPT !.last = event] ELSE ports[p]]

\* ------------------------------------------------------------- session store
PersistBeforeUpdate(q, ao, chain, locked, accts, pend, k) ==
  Append(q, SetOp(Snapshot(ao, chain, locked, accts, pendingRequests), k))

\* persistState: chrome.storage.local.set with the snapshot of the moment of the call
Persist(q, ao, chain, locked, accts, pend, k) ==
  Append(q, SetOp(Snapshot(ao, chain, locked, accts, pend), k))

\* ------------------------------------------------------------- page calls
\* enqueueForApproval up to "await persistState()"
EnqueueForApproval(id, method, params, origin, tabId) ==
  LET rid == FreshId
      entry == PageEntry(id, method, params, origin, tabId, rid)
      pend == With(pendingRequests, rid, entry)
  IN /\ nextReq < MaxReq
     /\ Len(ioQ) < MaxIO
     /\ nextReq' = nextReq + 1
     /\ pendingRequests' = pend
     /\ hist' = With(hist, rid, NewHist(entry))
     /\ ioQ' = Persist(ioQ, approvedOrigins, activeChainId, walletLocked,
                       activeAccounts, pend, Cont("open_popup", rid, "enqueue"))

\* handleSwitchChain past its checks: activeChainId = newChainId,
\* persistState() not awaited, broadcastEvent('chainChanged', newChainId)
SwitchChain(newChainId) ==
  /\ Len(ioQ) < MaxIO
  /\ activeChainId' = newChainId
  /\ ioQ' = Persist(ioQ, approvedOrigins, newChainId, walletLocked, activeAccounts,
                    pendingRequests, NoCont)
  /\ ports' = Broadcast("chainChanged:" \o newChainId)

\* port.onMessage: handleDappMessage(msg, origin, tabId), then the reply on the port
DappCall(p, id, method, params) ==
  /\ p \in DOMAIN ports
  /\ ports[p].open /\ ~ports[p].broken
  /\ LET origin == ports[p].origin
         out == IF method = "wallet_switchEthereumChain"
                THEN SwitchChainOutcome(origin, params)
                ELSE DappOutcome(method, origin)
     IN IF out.kind = "deferred"
        THEN /\ EnqueueForApproval(id, method, EnqueueParams(method, params),
                                   origin, ports[p].tab)
             /\ ev' = Event("dapp", p, id, method, origin, FreshId, <<params>>, out)
             /\ UNCHANGED <<activeChainId, ports>>
        ELSE IF method = "wallet_switchEthereumChain" /\ out.kind = "result"
        THEN /\ SwitchChain(params)
             /\ ev' = Event("dapp", p, id, method, origin, 0, <<params>>, out)
             /\ UNCHANGED <<pendingRequests, nextReq, hist>>
        ELSE /\ ev' = Event("dapp", p, id, method, origin, 0, <<params>>, out)
             /\ UNCHANGED <<pendingRequests, ioQ, nextReq, hist, activeChainId, ports>>
  /\ UNCHANGED <<walletLocked, approvedOrigins, activeAccounts,
                 wcInitialized, wcPendingProposals, wcListeners, contentPorts, storage, wcProjectId, bridgeQ, kills, outside>>

\* ------------------------------------------------------------- pairing bridge
\* RusbyWC._emit: every callback registered with rusbyWC.on('session_request')
\* runs once per event
ListenerRuns(registered) == registered

\* rusbyWC.on('session_request'): entry stored, persistState() not awaited,
\* approval surface requested in the same task
SessionRequest(topic, id, method, params, chainId) ==
  LET n == ListenerRuns(wcListeners)
      entry(j) == WcEntry(id, method, params, topic, chainId, FreshId + j - 1)
      pend(j) == [x \in DOMAIN pendingRequests \cup (FreshId..(FreshId + j - 1)) |->
                    IF x \in DOMAIN pendingRequests THEN pendingRequests[x]
                    ELSE entry(x - FreshId + 1)]
  IN /\ wcInitialized
     /\ nextReq + n <= MaxReq
     /\ Len(ioQ) + n <= MaxIO
     /\ nextReq' = nextReq + n
     /\ pendingRequests' = pend(n)
     /\ hist' = [x \in DOMAIN hist \cup (FreshId..(FreshId + n - 1)) |->
                   IF x \in DOMAIN hist THEN hist[x]
                   ELSE [NewHist(entry(x - FreshId + 1)) EXCEPT !.popups = 1]]
     /\ ioQ' = ioQ \o [j \in 1..n |->
                         SetOp(Snapshot(approvedOrigins, activeChainId, walletLocked,
                                        activeAccounts, pend(j)), NoCont)]
     /\ UNCHANGED <<walletLocked, approvedOrigins, activeChainId, activeAccounts,
                    wcInitialized, wcPendingProposals, wcListeners, contentPorts, storage, wcProjectId, bridgeQ,
                    ports, kills, outside, ev>>

\* ------------------------------------------------------------- approval surface
MissingButSaved(op, rid, arg) ==
  /\ ev' = Event(op, 0, 0, "", "", rid, arg, PopupError("Request not found"))
  /\ ioQ' = Persist(ioQ, approvedOrigins, activeChainId, walletLocked, activeAccounts,
                    pendingRequests, NoCont)
  /\ UNCHANGED <<mem, storage, wcProjectId, bridgeQ, ports, nextReq, kills, outside, hist>>

\* if (!req) return { error: 'Request not found' }
Missing(op, rid, arg) ==
  /\ ev' = Event(op, 0, 0, "", "", rid, arg, PopupError("Request not found"))
  /\ UNCHANGED <<mem, storage, wcProjectId, ioQ, bridgeQ, ports, nextReq, kills, outside, hist>>

\* port.postMessage of the resolution throws: the port of the entry's tab is
\* registered and broken, and the call is not inside a try
Throws(req) == ~UsesBridge(req) /\ \E p \in PortFor(req) : ports[p].broken

\* What the approval surface gets at once from a resolution of a found entry:
\* nothing yet, or never anything when the handler threw
Thrown == [kind |-> "thrown", result |-> NoResult, code |-> 0, message |-> ""]
ResolveReply(req) == IF Throws(req) THEN Thrown ELSE NoReply

\* The delivery branch of __rusby_approve / __rusby_reject and what follows it
\* up to the next await: through the bridge the handler suspends in the call;
\* otherwise the message goes to the port of the entry's tab, if one is
\* registered, the entry is deleted and persistState is called.
Deliver(op, rid, req, msg, ao) ==
  IF UsesBridge(req)
  THEN /\ Len(bridgeQ) < MaxBridge
       /\ bridgeQ' = Append(bridgeQ, Cont("delete", rid, op))
       /\ hist' = [hist EXCEPT ![rid] =
                     Called(@, IF op = "approve" THEN "respond" ELSE "reject", req)]
       /\ UNCHANGED <<pendingRequests, ioQ>>
  ELSE IF Throws(req)
  THEN UNCHANGED <<hist, pendingRequests, ioQ, bridgeQ>>
  ELSE /\ Len(ioQ) < MaxIO
       /\ hist' = [hist EXCEPT ![rid] =
                     IF PortFor(req) = {} THEN [@ EXCEPT !.via = "channel"]
                     ELSE Posted(@, CHOOSE p \in PortFor(req) : TRUE, msg)]
       /\ pendingRequests' = Removed(rid)
       /\ ioQ' = Persist(ioQ, ao, activeChainId, walletLocked, activeAccounts,
                         Removed(rid), Cont("return_ok", rid, op))
       /\ UNCHANGED bridgeQ

\* case '__rusby_approve'
Approve(rid, result) ==
  IF ~Found(rid)
  THEN Missing("approve", rid, result)
  ELSE LET req == pendingRequests[rid]
       IN /\ approvedOrigins' = Grant(req, result)
          /\ ev' = Event("approve", 0, req.id, req.method, req.origin, rid, result,
                         ResolveReply(req))
          /\ Deliver("approve", rid, req, ApproveMsg(req, result), Grant(req, result))
          /\ UNCHANGED <<walletLocked, activeChainId, activeAccounts, wcInitialized, wcPendingProposals, wcListeners,
                         contentPorts, storage, wcProjectId, ports, nextReq, kills, outside>>

\* case '__rusby_reject'
Reject(rid) ==
  IF ~Found(rid)
  THEN Missing("reject", rid, <<>>)
  ELSE LET req == pendingRequests[rid]
       IN /\ ev' = Event("reject", 0, req.id, req.method, req.origin, rid, <<>>,
                         ResolveReply(req))
          /\ Deliver("reject", rid, req, RejectMsg(req), approvedOrigins)
          /\ UNCHANGED <<walletLocked, approvedOrigins, activeChainId, activeAccounts,
                         wcInitialized, wcPendingProposals, wcListeners, contentPorts, storage, wcProjectId, ports,
                         nextReq, kills, outside>>

\* ------------------------------------------------------------- pairing methods
ProposalIds == {31, 32}
Proposal == "proposal"           \* opaque payload of a session_proposal event
PopupOk == [kind |-> "ok", result |-> NoResult, code |-> 0, message |-> ""]
ProposalMethods == {"__rusby_wc_approve_proposal", "__rusby_wc_reject_proposal"}
BridgeMethods ==
  ProposalMethods \cup {"__rusby_wc_pair", "__rusby_wc_approve_request",
                        "__rusby_wc_reject_request", "__rusby_wc_disconnect"}

\* rusbyWC.on('session_proposal'): the proposal is stored under its id and the
\* approval surface is requested
SessionProposal(id) ==
  /\ wcListeners > 0
  /\ wcPendingProposals' = With(wcPendingProposals, id, Proposal)
  /\ UNCHANGED <<walletLocked, pendingRequests, approvedOrigins, activeChainId,
                 activeAccounts, wcInitialized, wcListeners, contentPorts, storage,
                 wcProjectId, ioQ, bridgeQ, ports, nextReq, kills, outside, hist, ev>>

NotInitializedPairOnly(method) == ~wcInitialized /\ method = "__rusby_wc_pair"

\* if (!wcInitialized) return { error: 'WalletConnect not initialized' }
NotInitialized(method) == ~wcInitialized

\* The __rusby_wc_* cases of handlePopupMessage up to their await: id is the
\* proposal id or the remote call id the message names.
WcCall(method, id) ==
  /\ IF method = "__rusby_wc_get_sessions"
     THEN /\ ev' = Event("wc", 0, id, method, "", 0, <<>>,
                         IF ~wcInitialized THEN Result(<<>>)
                         ELSE Result(<<"getActiveSessions">>))
          /\ UNCHANGED bridgeQ
     ELSE IF NotInitialized(method)
     THEN /\ ev' = Event("wc", 0, id, method, "", 0, <<>>,
                         PopupError("WalletConnect not initialized"))
          /\ UNCHANGED bridgeQ
     ELSE /\ Len(bridgeQ) < MaxBridge
          /\ bridgeQ' = Append(bridgeQ, Cont("wc_call", id, method))
          /\ ev' = Event("wc", 0, id, method, "", 0, <<>>, NoReply)
  /\ UNCHANGED <<mem, storage, wcProjectId, ioQ, ports, nextReq, kills, outside, hist>>

ProposalSettledAlways(success, method, id) ==
  IF method \in ProposalMethods THEN Without(wcPendingProposals, id)
  ELSE wcPendingProposals

\* wcPendingProposals.delete(msg.proposalId) after the awaited bridge call,
\* skipped when the call throws
ProposalSettled(success, method, id) ==
  IF success /\ method \in ProposalMethods THEN Without(wcPendingProposals, id)
  ELSE wcPendingProposals

\* The handler resumes after rusbyWC.respondRequest / rejectRequest settled
\* (either way: the catch only logs), or rusbyWC.init settled.
BridgeReturn(i, success) ==
  /\ i \in DOMAIN bridgeQ
  /\ LET k == bridgeQ[i]
         rest == [j \in 1..(Len(bridgeQ) - 1) |->
                    IF j < i THEN bridgeQ[j] ELSE bridgeQ[j + 1]]
     IN IF k.pc = "init"
        THEN /\ wcInitialized' = (success \/ wcInitialized)
             /\ wcListeners' = IF success THEN wcListeners + 1 ELSE wcListeners
             /\ bridgeQ' = rest
             /\ UNCHANGED <<pendingRequests, ioQ, wcPendingProposals, ev>>
        ELSE IF k.pc = "wc_call"
        THEN /\ wcPendingProposals' = ProposalSettled(success, k.op, k.rid)
             /\ ev' = Event("wc_done", 0, k.rid, k.op, "", 0, <<>>,
                            IF success THEN PopupOk ELSE PopupError("e.message"))
             /\ bridgeQ' = rest
             /\ UNCHANGED <<pendingRequests, ioQ, wcInitialized, wcListeners>>
        ELSE /\ Len(ioQ) < MaxIO
             /\ pendingRequests' = Removed(k.rid)
             /\ ioQ' = Persist(ioQ, approvedOrigins, activeChainId, walletLocked,
                               activeAccounts, Removed(k.rid),
                               Cont("return_ok", k.rid, k.op))
             /\ bridgeQ' = rest
             /\ UNCHANGED <<wcInitialized, wcPendingProposals, wcListeners, ev>>
  /\ UNCHANGED <<walletLocked, approvedOrigins, activeChainId, activeAccounts,
                 contentPorts, storage, wcProjectId, ports, nextReq, kills, outside, hist>>

LockStateKeepsAccounts(locked) ==
  /\ Len(ioQ) < MaxIO
  /\ walletLocked' = locked
  /\ ioQ' = Persist(ioQ, approvedOrigins, activeChainId, locked, activeAccounts,
                    pendingRequests, Cont("lock_broadcast", 0, "lock_state"))
  /\ UNCHANGED <<pendingRequests, approvedOrigins, activeChainId, activeAccounts,
                 wcInitialized, wcPendingProposals, wcListeners, contentPorts, storage, wcProjectId, bridgeQ, ports,
                 nextReq, kills, outside, hist, ev>>

\* case '__rusby_lock_state' up to "await persistState()"
LockState(locked) ==
  /\ Len(ioQ) < MaxIO
  /\ walletLocked' = locked
  /\ activeAccounts' = IF locked THEN NoAccounts ELSE activeAccounts
  /\ ioQ' = Persist(ioQ, approvedOrigins, activeChainId, locked,
                    IF locked THEN NoAccounts ELSE activeAccounts,
                    pendingRequests, Cont("lock_broadcast", 0, "lock_state"))
  /\ UNCHANGED <<pendingRequests, approvedOrigins, activeChainId, wcInitialized, wcPendingProposals, wcListeners,
                 contentPorts, storage, wcProjectId, bridgeQ, ports, nextReq,
                 kills, outside, hist, ev>>

\* case '__rusby_set_accounts' up to "await persistState()"
SetAccounts(accounts) ==
  /\ Len(ioQ) < MaxIO
  /\ activeAccounts' = accounts
  /\ ioQ' = Persist(ioQ, approvedOrigins, activeChainId, walletLocked, accounts,
                    pendingRequests, Cont("return_ok", 0, "set_accounts"))
  /\ UNCHANGED <<walletLocked, pendingRequests, approvedOrigins, activeChainId,
                 wcInitialized, wcPendingProposals, wcListeners, contentPorts, storage, wcProjectId, bridgeQ, ports,
                 nextReq, kills, outside, hist, ev>>

\* case '__rusby_revoke_origin' up to "await persistState()"
RevokeOrigin(origin) ==
  /\ Len(ioQ) < MaxIO
  /\ approvedOrigins' = Without(approvedOrigins, origin)
  /\ ioQ' = Persist(ioQ, Without(approvedOrigins, origin), activeChainId,
                    walletLocked, activeAccounts, pendingRequests,
                    Cont("revoke_broadcast", 0, "revoke_origin"))
  /\ UNCHANGED <<walletLocked, pendingRequests, activeChainId, activeAccounts,
                 wcInitialized, wcPendingProposals, wcListeners, contentPorts, storage, wcProjectId, bridgeQ, ports,
                 nextReq, kills, outside, hist, ev>>

\* A message of chrome.runtime.onMessage; fields a method does not read hold
\* 0 / "" / FALSE / the absent result.
PopupMsg(method, requestId, result, locked, origin) ==
  [method |-> method, requestId |-> requestId, result |-> result,
   locked |-> locked, origin |-> origin]

\* handlePopupMessage: the cases that change session state
HandlePopupMessage(m) ==
  CASE m.method = "__rusby_approve" -> Approve(m.requestId, m.result)
    [] m.method = "__rusby_reject" -> Reject(m.requestId)
    [] m.method = "__rusby_lock_state" -> LockState(m.locked)
    [] m.method = "__rusby_set_accounts" -> SetAccounts(m.result)
    [] m.method = "__rusby_revoke_origin" -> RevokeOrigin(m.origin)

AcceptedAnySender(target, sender) == target = BackgroundTarget

\* msg.target === 'rusby-background' and sender.id === chrome.runtime.id
Accepted(target, sender) == target = BackgroundTarget /\ sender = RuntimeId

\* chrome.runtime.onMessage listener: a message that is not accepted is
\* dropped (return false, sendResponse never called); the event then records
\* the sender in its origin field and the target in its arg field.
OnMessage(target, sender, m) ==
  IF Accepted(target, sender)
  THEN HandlePopupMessage(m)
  ELSE /\ ev' = Event("ignored", 0, 0, m.method, sender, m.requestId, <<target>>,
                      NoReply)
       /\ UNCHANGED <<mem, storage, wcProjectId, ioQ, bridgeQ, ports, nextReq,
                      kills, outside, hist>>

\* ------------------------------------------------------------- storage
\* restoreState after "await chrome.storage.local.get": data is what the get
\* returned, NoData when the keys were never written.
\* approvedOrigins = data.approvedOrigins || {}
RestoredOrigins(data) == IF data.present THEN data.approvedOrigins ELSE EmptyMap

\* activeChainId = data.activeChainId || '0x1'
RestoredChain(data) ==
  IF data.present /\ data.activeChainId # "" THEN data.activeChainId ELSE DefaultChain

RestoredLockedTruthy(data) == data.present /\ data.walletLocked

\* walletLocked = data.walletLocked !== false
RestoredLocked(data) == ~(data.present /\ data.walletLocked = FALSE)

\* activeAccounts = data.activeAccounts || []
RestoredAccounts(data) == IF data.present THEN data.activeAccounts ELSE NoAccounts

RestoredPendingKept(data) == pendingRequests

\* if (data.pendingRequests) pendingRequests = new Map(Object.entries(...))
RestoredPending(data) ==
  IF data.present THEN data.pendingRequests ELSE pendingRequests

OpensAfterAnyWrite(k) == k.pc \in {"open_popup", "return_ok"}

\* The handler awaiting the write is enqueueForApproval: it goes on to
\* chrome.windows.create
OpensSurface(k) == k.pc = "open_popup"

CatchOpenFailureDrops(pend, rid) == Without(pend, rid)

\* catch (e) { console.error('[Rusby BG] Failed to open popup:', e) }
CatchOpenFailure(pend, rid) == pend

\* The storage operation at the head of the queue is performed and the handler
\* awaiting it resumes; opens tells whether a chrome.windows.create made by
\* the resumed handler succeeds.
IoStepWith(opens) ==
  /\ ioQ # << >>
  /\ LET h == Head(ioQ)
         k == h.k
     IN IF h.op = "set_pid"
        THEN \* __rusby_wc_set_project_id after its write:
             \* if (!wcInitialized) await initWalletConnect()
             /\ wcProjectId' = h.pid
             /\ ioQ' = IF k.pc = "init_wc" /\ ~wcInitialized
                       THEN Append(Tail(ioQ), GetOp(Cont("wc_pid", 0, "")))
                       ELSE Tail(ioQ)
             /\ UNCHANGED <<walletLocked, pendingRequests, approvedOrigins,
                            activeChainId, activeAccounts, storage, bridgeQ, hist,
                            ports>>
        ELSE IF h.op = "set"
        THEN /\ storage' = h.data
             /\ ioQ' = Tail(ioQ)
             /\ UNCHANGED wcProjectId
             /\ hist' = IF OpensSurface(k) /\ k.rid \in DOMAIN hist
                        THEN IF opens THEN [hist EXCEPT ![k.rid].popups = @ + 1]
                             ELSE [hist EXCEPT ![k.rid].failed = TRUE]
                        ELSE IF k.pc = "return_ok" /\ k.rid \in DOMAIN hist
                        THEN [hist EXCEPT ![k.rid].done = TRUE]   \* return { ok: true }
                        ELSE hist
             /\ ports' = IF k.pc = "revoke_broadcast"
                            \/ (k.pc = "lock_broadcast" /\ walletLocked)
                         THEN Broadcast("accountsChanged:[]")
                         ELSE ports
             /\ pendingRequests' = IF OpensSurface(k) /\ ~opens
                                    THEN CatchOpenFailure(pendingRequests, k.rid)
                                    ELSE pendingRequests
             /\ UNCHANGED <<walletLocked, approvedOrigins,
                            activeChainId, activeAccounts, bridgeQ>>
        ELSE IF k.pc = "wc_pid"
        THEN \* initWalletConnect after the get of wc_project_id
             /\ wcProjectId # NoPid => Len(bridgeQ) < MaxBridge
             /\ ioQ' = Tail(ioQ)
             /\ bridgeQ' = IF wcProjectId = NoPid THEN bridgeQ
                           ELSE Append(bridgeQ, Cont("init", 0, ""))
             /\ UNCHANGED <<walletLocked, pendingRequests, approvedOrigins,
                            activeChainId, activeAccounts, storage, hist, ports,
                            wcProjectId>>
        ELSE \* restoreState
             /\ approvedOrigins' = RestoredOrigins(storage)
             /\ activeChainId' = RestoredChain(storage)
             /\ walletLocked' = RestoredLocked(storage)
             /\ activeAccounts' = RestoredAccounts(storage)
             /\ pendingRequests' = RestoredPending(storage)
             /\ ioQ' = IF k.pc = "startup"     \* .then(() => initWalletConnect())
                       THEN Append(Tail(ioQ), GetOp(Cont("wc_pid", 0, "")))
                       ELSE Tail(ioQ)
             /\ UNCHANGED <<storage, bridgeQ, hist, ports, wcProjectId>>
  /\ UNCHANGED <<wcInitialized, wcPendingProposals, wcListeners, contentPorts, nextReq,
                 kills, outside, ev>>

IoStep == IoStepWith(TRUE)

\* The write awaited by enqueueForApproval is done and chrome.windows.create
\* rejects.
IoStepPopupFails ==
  /\ ioQ # << >>
  /\ Head(ioQ).op = "set" /\ OpensSurface(Head(ioQ).k)
  /\ IoStepWith(FALSE)

\* case '__rusby_wc_set_project_id' up to the await of its storage write
SetProjectId(pid) ==
  /\ Len(ioQ) < MaxIO
  /\ ioQ' = Append(ioQ, PidOp(pid, Cont("init_wc", 0, "set_project_id")))
  /\ UNCHANGED <<mem, storage, wcProjectId, bridgeQ, ports, nextReq, kills, outside, hist, ev>>

\* chrome.runtime.onInstalled / self 'activate': restoreState() is called again
OnInstalled ==
  /\ Len(ioQ) < MaxIO
  /\ ioQ' = Append(ioQ, GetOp(Cont("restore", 0, "")))
  /\ UNCHANGED <<mem, storage, wcProjectId, bridgeQ, ports, nextReq, kills, outside, hist, ev>>

\* ------------------------------------------------------------- process
\* The service worker is terminated and started again by the next event:
\* module state is re-initialised, every port is disconnected, suspended
\* handlers are gone; storage writes already handed to chrome.storage are
\* still performed.  The new instance calls restoreState().
Survives(q) == SelectSeq(q, LAMBDA e : e.op \in {"set", "set_pid"})
Orphaned(q) == [j \in DOMAIN q |-> [q[j] EXCEPT !.k = NoCont]]

Kill ==
  /\ kills < MaxKills
  /\ kills' = kills + 1
  /\ UNCHANGED outside
  /\ walletLocked' = TRUE
  /\ pendingRequests' = EmptyMap
  /\ approvedOrigins' = EmptyMap
  /\ activeChainId' = DefaultChain
  /\ activeAccounts' = NoAccounts
  /\ wcInitialized' = FALSE
  /\ wcPendingProposals' = EmptyMap
  /\ wcListeners' = 0
  /\ contentPorts' = EmptyMap
  /\ ports' = [p \in DOMAIN ports |-> [ports[p] EXCEPT !.open = FALSE]]
  /\ bridgeQ' = << >>
  /\ ioQ' = Append(Orphaned(Survives(ioQ)), GetOp(Cont("startup", 0, "")))
  /\ UNCHANGED <<storage, wcProjectId, nextReq, hist, ev>>

\* ------------------------------------------------------------- specifications
\* What the approval surface sends as result for the entry it resolves.
Results(rid) ==
  IF Found(rid) /\ pendingRequests[rid].method # "eth_requestAccounts"
  THEN {SigResult} ELSE AccountLists

Resolve ==
  \/ \E r \in 1..MaxReq : \E a \in Results(r) : Approve(r, a)
  \/ \E r \in 1..MaxReq : Reject(r)

\* One process lifetime, both request sources: pages of one origin connect,
\* disconnect and ask for accounts, the pairing client (when configured)
\* delivers session requests, the approval surface resolves.
HomeOrigin == "https://a.example"

Next ==
  \/ \E t \in Tabs : Connect(t, HomeOrigin)
  \/ \E p \in DOMAIN ports : Disconnect(p)
  \/ \E p \in DOMAIN ports, id \in CallIds, x \in Params :
        DappCall(p, id, "eth_requestAccounts", x)
  \/ \E t \in Topics, id \in WcCallIds, x \in Params :
        SessionRequest(t, id, "eth_sendTransaction", x, "eip155:1")
  \/ Resolve
  \/ \E i \in DOMAIN bridgeQ, ok \in BOOLEAN : BridgeReturn(i, ok)
  \/ IoStep

Spec == Init /\ [][Next]_vars

\* One process lifetime, page requests only, pages of every origin; a tab
\* navigates by disconnecting one page and connecting another.
InitPage == Init /\ wcProjectId = NoPid

NextPage ==
  \/ \E t \in Tabs, o \in Origins : Connect(t, o)
  \/ \E p \in DOMAIN ports : Disconnect(p)
  \/ \E p \in DOMAIN ports, id \in CallIds, x \in Params :
        DappCall(p, id, "eth_requestAccounts", x)
  \/ Resolve
  \/ IoStep

SpecPage == InitPage /\ [][NextPage]_vars

\* The dispatcher: every method of the policy table, from pages of every
\* origin, in every lock and authorization state.  Messages are taken one at
\* a time here: each is handled once the storage queue has drained.
DispatchMethods == {"eth_requestAccounts", "eth_accounts"} \cup SignMethods

NextDispatch ==
  \/ ioQ = << >> /\ \E t \in Tabs, o \in Origins : Connect(t, o)
  \/ ioQ = << >> /\ \E p \in DOMAIN ports, id \in CallIds, m \in DispatchMethods,
                        x \in Params : DappCall(p, id, m, x)
  \/ ioQ = << >> /\ \E r \in 1..MaxReq : \E a \in Results(r) : Approve(r, a)
  \/ ioQ = << >> /\ \E b \in BOOLEAN : LockState(b)
  \/ ioQ = << >> /\ \E o \in Origins : RevokeOrigin(o)
  \/ IoStep

SpecDispatch == InitPage /\ [][NextDispatch]_vars

\* Pairing requests across terminations of the service worker.
InitPairing == Init /\ wcProjectId \in Pids

NextRestart ==
  \/ \E t \in Topics, id \in WcCallIds, x \in Params :
        SessionRequest(t, id, "eth_sendTransaction", x, "eip155:1")
  \/ Resolve
  \/ \E i \in DOMAIN bridgeQ, ok \in BOOLEAN : BridgeReturn(i, ok)
  \/ IoStep
  \/ Kill

SpecRestart == InitPairing /\ [][NextRestart]_vars

\* Chain switching: pages in two tabs, one of them approved through the
\* approval surface, ask for every kind of chain parameter.  Messages are
\* taken one at a time.
ChainTabs == {1, 2}

NextChain ==
  \/ ioQ = << >> /\ \E t \in ChainTabs, o \in Origins : Connect(t, o)
  \/ ioQ = << >> /\ \E p \in DOMAIN ports, id \in CallIds, x \in Params :
                        DappCall(p, id, "eth_requestAccounts", x)
  \/ ioQ = << >> /\ \E r \in 1..MaxReq : \E a \in Results(r) : Approve(r, a)
  \/ ioQ = << >> /\ \E p \in DOMAIN ports, id \in CallIds, x \in SwitchParams :
                        DappCall(p, id, "wallet_switchEthereumChain", x)
  \/ IoStep

SpecChain == InitPage /\ [][NextChain]_vars

\* The session store across terminations: one page asks for accounts and
\* switches chain, the approval surface approves, locks, unlocks and sets the
\* accounts, the service worker is terminated and started again.  Messages
\* are taken one at a time.
StoreChains == {"0x89", "0xa"}

NextStore ==
  \/ ioQ = << >> /\ \E t \in Tabs : Connect(t, HomeOrigin)
  \/ ioQ = << >> /\ \E p \in DOMAIN ports, id \in CallIds, x \in Params :
                        DappCall(p, id, "eth_requestAccounts", x)
  \/ ioQ = << >> /\ \E p \in DOMAIN ports, id \in CallIds, x \in StoreChains :
                        DappCall(p, id, "wallet_switchEthereumChain", x)
  \/ ioQ = << >> /\ \E r \in 1..MaxReq : \E a \in Results(r) : Approve(r, a)
  \/ ioQ = << >> /\ \E b \in BOOLEAN : LockState(b)
  \/ ioQ = << >> /\ \E a \in AccountLists : SetAccounts(a)
  \/ IoStep
  \/ Kill

SpecStore == InitPage /\ [][NextStore]_vars

\* One process lifetime, pairing requests only: the pairing client delivers
\* session requests of the methods a session may carry, the approval surface
\* resolves them.
WcMethods == {"eth_requestAccounts", "personal_sign"}

NextPairing ==
  \/ \E t \in Topics, id \in WcCallIds, m \in WcMethods, x \in Params :
        SessionRequest(t, id, m, x, "eip155:1")
  \/ Resolve
  \/ \E i \in DOMAIN bridgeQ, ok \in BOOLEAN : BridgeReturn(i, ok)
  \/ IoStep

SpecPairing == InitPairing /\ [][NextPairing]_vars

\* Page requests across terminations, installs and activations: handlers
\* run while a restoreState is waiting for storage.
NextWake ==
  \/ \E t \in Tabs : Connect(t, HomeOrigin)
  \/ \E p \in DOMAIN ports, id \in CallIds, x \in Params :
        DappCall(p, id, "eth_requestAccounts", x)
  \/ \E r \in 1..MaxReq : Reject(r)
  \/ IoStep
  \/ OnInstalled
  \/ Kill

SpecWake == InitPage /\ [][NextWake]_vars

\* Messages that do not come from the wallet's own approval surface: pages
\* ask for accounts, and every runtime message carries another sender id or
\* another target.
PopupMessages ==
  {PopupMsg("__rusby_approve", r, a, FALSE, "") : r \in 1..MaxReq, a \in AccountLists}
    \cup {PopupMsg("__rusby_reject", r, NoResult, FALSE, "") : r \in 1..MaxReq}
    \cup {PopupMsg("__rusby_lock_state", 0, NoResult, FALSE, "")}
    \cup {PopupMsg("__rusby_set_accounts", 0, a, FALSE, "") : a \in AccountLists}
    \cup {PopupMsg("__rusby_revoke_origin", 0, NoResult, FALSE, o) : o \in Origins}

NextForeign ==
  \/ \E t \in Tabs, o \in Origins : Connect(t, o)
  \/ \E p \in DOMAIN ports, id \in CallIds, x \in Params :
        DappCall(p, id, "eth_requestAccounts", x)
  \/ \E target \in Targets, sender \in SenderIds, m \in PopupMessages :
        /\ target # "rusby-background" \/ sender # "rusby-extension"
        /\ OnMessage(target, sender, m)
  \/ IoStep

SpecForeign == InitPage /\ [][NextForeign]_vars

\* Ports of every kind of sender: content scripts of a tab, and ports named
\* 'rusby-content' whose sender has no tab (and so no url: the origin is '').
NoOrigin == ""
SenderOrigin(t) == IF t = NoTab THEN NoOrigin ELSE HomeOrigin

NextSenders ==
  \/ \E t \in Tabs \cup {NoTab} : Connect(t, SenderOrigin(t))
  \/ \E p \in DOMAIN ports, id \in CallIds, x \in Params :
        DappCall(p, id, "eth_requestAccounts", x)
  \/ \E t \in Topics, id \in WcCallIds, x \in Params :
        SessionRequest(t, id, "personal_sign", x, "eip155:1")
  \/ \E r \in 1..MaxReq : Reject(r)
  \/ \E i \in DOMAIN bridgeQ, ok \in BOOLEAN : BridgeReturn(i, ok)
  \/ IoStep

SpecSenders == Init /\ [][NextSenders]_vars

\* Both request sources across terminations: pages and the pairing client
\* enqueue, the approval surface rejects, the service worker is terminated
\* and started again.
NextLife ==
  \/ \E t \in Tabs : Connect(t, HomeOrigin)
  \/ \E p \in DOMAIN ports, id \in CallIds, x \in Params :
        DappCall(p, id, "eth_requestAccounts", x)
  \/ \E t \in Topics, id \in WcCallIds, x \in Params :
        SessionRequest(t, id, "personal_sign", x, "eip155:1")
  \/ \E r \in 1..MaxReq : Reject(r)
  \/ \E i \in DOMAIN bridgeQ, ok \in BOOLEAN : BridgeReturn(i, ok)
  \/ IoStep
  \/ Kill

SpecLife == Init /\ [][NextLife]_vars

\* Requests that arrive with the event that wakes the service worker: a page
\* is approved and the wallet unlocked, the worker restarts, and the page's
\* next request is handled while restoreState is waiting for storage.
NextEarly ==
  \/ \E t \in Tabs : Connect(t, HomeOrigin)
  \/ \E p \in DOMAIN ports, id \in CallIds, x \in Params :
        DappCall(p, id, "eth_requestAccounts", x)
  \/ \E r \in 1..MaxReq : \E a \in Results(r) : Approve(r, a)
  \/ LockState(FALSE)
  \/ IoStep
  \/ Kill

SpecEarly == InitPage /\ [][NextEarly]_vars

\* Pairing methods of the approval surface, with and without a configured
\* project id: proposals arrive, the surface calls every __rusby_wc_* method,
\* bridge calls succeed or fail, the service worker restarts.
NextProposals ==
  \/ \E id \in ProposalIds : SessionProposal(id)
  \/ \E m \in BridgeMethods \cup {"__rusby_wc_get_sessions"}, id \in ProposalIds :
        WcCall(m, id)
  \/ \E i \in DOMAIN bridgeQ, ok \in BOOLEAN : BridgeReturn(i, ok)
  \/ IoStep
  \/ Kill

SpecProposals == Init /\ [][NextProposals]_vars

\* The method vocabulary: pages of every origin call the read-only methods,
\* wallet_addEthereumChain and methods the dispatcher does not know, in every
\* lock and authorization state.  Messages are taken one at a time.
SupportedMethods ==
  DispatchMethods \cup {"eth_chainId", "net_version", "wallet_switchEthereumChain"}
OtherMethods == {"wallet_addEthereumChain", "eth_sign", "wallet_watchAsset"}

NextVocabulary ==
  \/ ioQ = << >> /\ \E t \in Tabs, o \in Origins : Connect(t, o)
  \/ ioQ = << >> /\ \E p \in DOMAIN ports, id \in CallIds, x \in Params :
                        DappCall(p, id, "eth_requestAccounts", x)
  \/ ioQ = << >> /\ \E p \in DOMAIN ports, id \in CallIds, x \in Params,
                        m \in OtherMethods \cup {"eth_chainId", "net_version"} :
                        DappCall(p, id, m, x)
  \/ ioQ = << >> /\ \E p \in DOMAIN ports, id \in CallIds, x \in StoreChains :
                        DappCall(p, id, "wallet_switchEthereumChain", x)
  \/ ioQ = << >> /\ \E r \in 1..MaxReq : \E a \in Results(r) : Approve(r, a)
  \/ ioQ = << >> /\ \E b \in BOOLEAN : LockState(b)
  \/ IoStep

SpecVocabulary == InitPage /\ [][NextVocabulary]_vars

\* Locking: pages in two tabs connect and disconnect, the approval surface
\* sets the accounts, locks and unlocks; handlers interleave with the writes.
NextLock ==
  \/ \E t \in ChainTabs, o \in Origins : Connect(t, o)
  \/ \E p \in DOMAIN ports : Disconnect(p)
  \/ \E a \in AccountLists : SetAccounts(a)
  \/ \E b \in BOOLEAN : LockState(b)
  \/ IoStep

SpecLock == InitPage /\ [][NextLock]_vars

\* Deliveries that fail: the page behind a registered port goes away, the
\* bridge call of a resolution fails, the approval surface does not open.
NextFailure ==
  \/ \E t \in Tabs : Connect(t, HomeOrigin)
  \/ \E p \in DOMAIN ports : PortFails(p)
  \/ \E p \in DOMAIN ports, id \in CallIds, x \in Params :
        DappCall(p, id, "eth_requestAccounts", x)
  \/ \E t \in Topics, id \in WcCallIds, x \in Params :
        SessionRequest(t, id, "personal_sign", x, "eip155:1")
  \/ Resolve
  \/ \E i \in DOMAIN bridgeQ, ok \in BOOLEAN : BridgeReturn(i, ok)
  \/ IoStep
  \/ IoStepPopupFails

SpecFailure == Init /\ [][NextFailure]_vars

\* One page that stays open: its content script connects once (it never
\* reconnects), the page asks for accounts, the approval surface resolves, the
\* service worker may be terminated and started again in between.  Storage
\* operations complete and the approval surface keeps resolving what it finds.
NextRecover ==
  \/ ports = << >> /\ \E t \in Tabs : Connect(t, HomeOrigin)
  \/ \E p \in DOMAIN ports, id \in CallIds, x \in Params :
        DappCall(p, id, "eth_requestAccounts", x)
  \/ Resolve
  \/ IoStep
  \/ Kill

SpecRecover ==
  InitPage /\ [][NextRecover]_vars /\ WF_vars(IoStep) /\ WF_vars(Resolve)

\* Configuring the pairing bridge: with or without a stored project id, the
\* approval surface sets the project id while the startup initWalletConnect
\* may be running; session requests arrive and are rejected.
NextConfigure ==
  \/ \E pid \in Pids : SetProjectId(pid)
  \/ \E t \in Topics, id \in WcCallIds, x \in Params :
        SessionRequest(t, id, "personal_sign", x, "eip155:1")
  \/ \E r \in 1..MaxReq : Reject(r)
  \/ \E i \in DOMAIN bridgeQ, ok \in BOOLEAN : BridgeReturn(i, ok)
  \/ IoStep

SpecConfigure == Init /\ [][NextConfigure]_vars

\* The injected provider alone: the page calls request(), the content script
\* delivers responses with any id, each timer callback runs once.
ProviderReplies ==
  {Result(r) : r \in ProviderResults} \cup {Error(c, "e") : c \in ProviderErrorCodes}

TimerFires == \E id \in 1..MaxProviderReq : ProviderTimeout(id)

NextProvider ==
  \/ \E m \in ProviderMethods : ProviderRequest(m)
  \/ \E id \in ResponseIds, reply \in ProviderReplies : ProviderResponse(id, reply)
  \/ TimerFires

SpecProvider == InitPage /\ [][NextProvider]_vars /\ WF_vars(TimerFires)

\* The pairing client's storage adapter next to the background's own storage:
\* the pairing client sets and removes items, the approval surface configures
\* the project id and sets accounts (which persists the session state), the
\* service worker is terminated and restarted.
NextAdapter ==
  \/ \E key \in AdapterKeys, v \in AdapterValues : AdapterSetItem(key, v)
  \/ \E key \in AdapterKeys : AdapterRemoveItem(key)
  \/ \E pid \in Pids : SetProjectId(pid)
  \/ \E a \in AccountLists : SetAccounts(a)
  \/ \E i \in DOMAIN bridgeQ, ok \in BOOLEAN : BridgeReturn(i, ok)
  \/ IoStep
  \/ Kill

SpecAdapter == InitPage /\ [][NextAdapter]_vars

\* Revocation: pages of two origins in two tabs connect and are approved,
\* the approval surface revokes origins.  Messages are taken one at a time.
NextRevoke ==
  \/ ioQ = << >> /\ \E t \in ChainTabs, o \in Origins : Connect(t, o)
  \/ ioQ = << >> /\ \E p \in DOMAIN ports, id \in CallIds, x \in Params :
                        DappCall(p, id, "eth_requestAccounts", x)
  \/ ioQ = << >> /\ \E r \in 1..MaxReq : \E a \in Results(r) : Approve(r, a)
  \/ ioQ = << >> /\ \E o \in Origins : RevokeOrigin(o)
  \/ IoStep

SpecRevoke == InitPage /\ [][NextRevoke]_vars

\* Every kind of operation, with a configured project id: page calls of
\* every method, session requests and proposals, every message of the
\* approval surface, bridge calls that succeed or fail.  Messages are taken
\* one at a time.
FrameMethods == {"eth_requestAccounts", "eth_accounts", "personal_sign"}

NextFrame ==
  \/ ioQ = << >> /\ ports = << >> /\ \E t \in Tabs : Connect(t, HomeOrigin)
  \/ ioQ = << >> /\ \E p \in DOMAIN ports, id \in CallIds, m \in FrameMethods :
                        DappCall(p, id, m, EmptyParams)
  \/ ioQ = << >> /\ \E t \in Topics, id \in WcCallIds :
                        SessionRequest(t, id, "personal_sign", EmptyParams, "eip155:1")
  \/ ioQ = << >> /\ SessionProposal(31)
  \/ ioQ = << >> /\ Resolve
  \/ ioQ = << >> /\ \E b \in BOOLEAN : LockState(b)
  \/ ioQ = << >> /\ SetAccounts(<<"0xa1">>)
  \/ ioQ = << >> /\ RevokeOrigin(HomeOrigin)
  \/ ioQ = << >> /\ bridgeQ = << >> /\ WcCall("__rusby_wc_approve_proposal", 31)
  \/ ioQ = << >> /\ \E i \in DOMAIN bridgeQ, ok \in BOOLEAN : BridgeReturn(i, ok)
  \/ IoStep

SpecFrame == InitPairing /\ [][NextFrame]_vars

\* ------------------------------------------------------------- claims
\* The step just taken handled a message of kind op.
Handled(op) == ev' # ev /\ ev'.op = op
NotFound == PopupError("Request not found")
PageSourced(r) == hist[r].entry.source # "walletconnect"

\* C1: for a page-sourced request, however __rusby_approve and __rusby_reject
\* for its requestId interleave and repeat, at most one response carrying its
\* callId is posted to a channel.
C1_OneResponsePerPageRequest ==
  \A r \in DOMAIN hist : PageSourced(r) => hist[r].posts <= 1

\* A page-sourced request was answered on its channel and a later reject of
\* the same requestId was handled.
C1_Witness ==
  \E r \in DOMAIN hist :
    /\ PageSourced(r) /\ hist[r].posts = 1
    /\ ev.op = "reject" /\ ev.rid = r /\ ev.reply = NotFound

\* C2: a response for a pending request of origin o is only ever posted to a
\* channel whose page origin is o, also when the tab navigated or its key was
\* re-registered by a page of another origin before the resolution.
C2_ResponseOnlyToOwnOrigin ==
  \A r \in DOMAIN hist : \A m \in hist[r].msgs :
    ports[m.port].origin = hist[r].entry.origin

\* C3: eth_accounts from origin o answers [] when locked or o is not approved,
\* approvedOrigins[o] otherwise; never an error, never deferred, no state change.
C3_EthAccounts ==
  [][ (Handled("dapp") /\ ev'.method = "eth_accounts") =>
        /\ ev'.reply.kind = "result"
        /\ ev'.reply.result =
             IF walletLocked \/ ev'.origin \notin DOMAIN approvedOrigins
             THEN << >> ELSE approvedOrigins[ev'.origin]
        /\ UNCHANGED <<mem, storage, ioQ, bridgeQ, ports, nextReq, hist>> ]_vars

\* An unlocked wallet answered eth_accounts of an approved origin with its grant.
C3_Witness ==
  /\ ev.op = "dapp" /\ ev.method = "eth_accounts"
  /\ ~walletLocked /\ ev.origin \in DOMAIN approvedOrigins
  /\ ev.reply = Result(approvedOrigins[ev.origin]) /\ ev.reply.result # << >>

\* C4: approving a pending eth_requestAccounts entry with account list A makes
\* approvedOrigins[entry.origin] exactly A, changes no other origin's grant,
\* and the channel registered under the entry's tab key receives {id, result: A}.
C4_ApproveAccountsGrants ==
  [][ (Handled("approve") /\ ev'.reply = NoReply
         /\ ev'.method = "eth_requestAccounts") =>
        LET r == ev'.rid
            e == pendingRequests[r]
            A == ev'.arg
        IN /\ DOMAIN approvedOrigins' = DOMAIN approvedOrigins \cup {e.origin}
           /\ approvedOrigins'[e.origin] = A
           /\ \A o \in DOMAIN approvedOrigins \ {e.origin} :
                 approvedOrigins'[o] = approvedOrigins[o]
           /\ e.tabId \in DOMAIN contentPorts =>
                 /\ hist'[r].msgs = hist[r].msgs \cup
                       {[port |-> contentPorts[e.tabId], id |-> e.id, body |-> Result(A)]}
                 /\ hist'[r].posts = hist[r].posts + 1 ]_vars

\* A second approval for the same origin replaced the list granted by the first,
\* and the page received the new list.
C4_Witness ==
  /\ ev.op = "approve" /\ ev.method = "eth_requestAccounts" /\ ev.reply = NoReply
  /\ ev.origin \in DOMAIN approvedOrigins /\ approvedOrigins[ev.origin] = ev.arg
  /\ hist[ev.rid].posts = 1
  /\ \E r \in DOMAIN hist \ {ev.rid} :
       /\ hist[r].entry.origin = ev.origin
       /\ \E m \in hist[r].msgs : m.body.kind = "result" /\ m.body.result # ev.arg

\* Exactly one entry was added to the table, the others are as they were.
OneNewEntry ==
  /\ Cardinality(DOMAIN pendingRequests' \ DOMAIN pendingRequests) = 1
  /\ \A r \in DOMAIN pendingRequests :
       r \in DOMAIN pendingRequests' /\ pendingRequests'[r] = pendingRequests[r]

\* C5: eth_sendTransaction, personal_sign and eth_signTypedData_v4 answer error
\* 4100 'Wallet locked' when locked (approved or not), else 4100 'Not connected'
\* when the origin is not approved, else are deferred with exactly one new
\* pending entry; a grant never yields a synchronous result.
C5_SigningPolicy ==
  [][ (Handled("dapp") /\ ev'.method \in SignMethods) =>
        IF walletLocked
        THEN ev'.reply = Error(4100, "Wallet locked") /\ UNCHANGED pendingRequests
        ELSE IF ev'.origin \notin DOMAIN approvedOrigins
        THEN ev'.reply = Error(4100, "Not connected") /\ UNCHANGED pendingRequests
        ELSE ev'.reply = Deferred /\ OneNewEntry ]_vars

\* A signing call of an approved origin was refused because the wallet is locked.
C5_Witness ==
  /\ ev.op = "dapp" /\ ev.method = "eth_sendTransaction"
  /\ walletLocked /\ ev.origin \in DOMAIN approvedOrigins
  /\ ev.reply = Error(4100, "Wallet locked")

\* C6: eth_requestAccounts is deferred when locked, even for an approved
\* origin; unlocked and approved it answers approvedOrigins[o] with no pending
\* entry and no approval surface; unlocked and not approved it is deferred.
C6_RequestAccountsPolicy ==
  [][ (Handled("dapp") /\ ev'.method = "eth_requestAccounts") =>
        IF ~walletLocked /\ ev'.origin \in DOMAIN approvedOrigins
        THEN /\ ev'.reply = Result(approvedOrigins[ev'.origin])
             /\ UNCHANGED <<pendingRequests, hist, ioQ>>
        ELSE ev'.reply = Deferred /\ OneNewEntry ]_vars

\* A locked wallet deferred eth_requestAccounts of an already approved origin.
C6_Witness ==
  /\ ev.op = "dapp" /\ ev.method = "eth_requestAccounts"
  /\ walletLocked /\ ev.origin \in DOMAIN approvedOrigins
  /\ ev.reply = Deferred /\ ev.rid \in DOMAIN pendingRequests

\* C7: an entry created from a pairing session call is always resolved through
\* the pairing bridge and never through the channel registry, also after a
\* restart when it was restored from storage and the bridge is not initialized.
C7_PairingEntryViaBridge ==
  \A r \in DOMAIN hist : ~PageSourced(r) => hist[r].via \in {"", "bridge"}

\* C8: once an approve or reject for requestId r has completed, r is in neither
\* the table in memory nor the persisted one, and a later approve/reject for r
\* answers 'Request not found' and delivers nothing.
C8_ResolvedStaysResolved ==
  [][ /\ \A r \in DOMAIN hist' : hist'[r].done =>
            /\ r \notin DOMAIN pendingRequests'
            /\ r \notin DOMAIN storage'.pendingRequests
      /\ \A r \in DOMAIN hist : hist[r].done =>
            /\ hist'[r] = hist[r]
            /\ (ev' # ev /\ ev'.op \in {"approve", "reject"} /\ ev'.rid = r)
                 => ev'.reply = NotFound ]_vars

\* A pairing request was resolved, delivered through the bridge and removed,
\* and an approve for it afterwards was answered 'Request not found'.
C8_Witness ==
  \E r \in DOMAIN hist :
    /\ hist[r].done /\ hist[r].bridge = 1 /\ storage.present
    /\ ev.op = "approve" /\ ev.rid = r /\ ev.reply = NotFound

\* C9: approve or reject of a requestId that is not in the table answers
\* 'Request not found' and changes nothing: table, grants, storage, channels
\* and bridge are as before.
C9_NotFoundNoEffect ==
  [][ (ev' # ev /\ ev'.op \in {"approve", "reject"}
         /\ ev'.rid \notin DOMAIN pendingRequests) =>
        /\ ev'.reply = NotFound
        /\ UNCHANGED <<mem, storage, ioQ, bridgeQ, ports, hist>> ]_vars

\* A reject of an id that was never stored was refused while another request
\* is pending.
C9_Witness ==
  /\ ev.op = "reject" /\ ev.reply = NotFound /\ ev.rid \notin DOMAIN hist
  /\ pendingRequests # EmptyMap

\* C10: right after enqueueForApproval stored a request, __rusby_get_pending
\* holds exactly one entry with the new requestId, carrying the id, method,
\* params, origin and tab key it was called with; the requestId is neither in
\* the table nor used before; the entries already pending are unchanged.
C10_EnqueueThenListed ==
  [][ (Handled("dapp") /\ ev'.reply = Deferred) =>
        LET r == ev'.rid
        IN /\ r \notin DOMAIN pendingRequests /\ r \notin DOMAIN hist
           /\ Cardinality({e \in GetPending' : e.requestId = r}) = 1
           /\ \A e \in GetPending' : e.requestId = r =>
                 /\ e.id = ev'.id /\ e.method = ev'.method
                 /\ e.params = (IF e.method = "eth_requestAccounts"
                                THEN EmptyParams ELSE ev'.arg[1])
                 /\ e.origin = ev'.origin /\ e.tabId = ports[ev'.port].tab
           /\ \A e \in GetPending : e \in GetPending'
           /\ Cardinality(GetPending') = Cardinality(GetPending) + 1 ]_vars

\* A request was deferred while another one was already pending, and both are
\* listed.
C10_Witness ==
  /\ ev.op = "dapp" /\ ev.reply = Deferred
  /\ ev.rid \in DOMAIN pendingRequests /\ Cardinality(GetPending) = 2
  /\ \E e \in GetPending : e.requestId # ev.rid /\ e.origin # ev.origin

\* C11: when __rusby_reject resolves a page-sourced entry whose tab key has a
\* registered channel, that channel receives exactly one message,
\* {id: callId, error: {code: 4001, message: 'User rejected request'}}, where
\* callId is the id the page supplied and not the requestId.
C11_RejectDelivers4001 ==
  [][ (Handled("reject") /\ ev'.reply = NoReply) =>
        LET r == ev'.rid
            e == pendingRequests[r]
        IN (e.source # "walletconnect" /\ e.tabId \in DOMAIN contentPorts) =>
             /\ hist'[r].msgs = hist[r].msgs \cup
                   {[port |-> contentPorts[e.tabId], id |-> e.id,
                     body |-> Error(4001, "User rejected request")]}
             /\ hist'[r].posts = hist[r].posts + 1
             /\ e.id \in CallIds /\ e.id # r ]_vars

\* A pending page request was rejected and its page received the 4001 error
\* under the id it had supplied.
C11_Witness ==
  /\ ev.op = "reject" /\ ev.reply = NoReply /\ PageSourced(ev.rid)
  /\ hist[ev.rid].posts = 1
  /\ \E m \in hist[ev.rid].msgs :
       /\ m.id = hist[ev.rid].entry.id /\ m.id # ev.rid
       /\ m.body = Error(4001, "User rejected request")
       /\ ports[m.port].origin = hist[ev.rid].entry.origin

\* The channels registered in contentPorts.
Registered == {contentPorts[t] : t \in DOMAIN contentPorts}
SwitchCall == Handled("dapp") /\ ev'.method = "wallet_switchEthereumChain"

\* C12: wallet_switchEthereumChain from an origin that is not approved answers
\* 4100 'Not connected' whatever the params and changes nothing; from an
\* approved origin with a chainId of the supported set it sets activeChainId,
\* hands the new snapshot to storage, broadcasts chainChanged(chainId) to every
\* registered channel and answers result null; with params or chainId missing
\* it answers -32602.
C12_SwitchChain ==
  [][ SwitchCall =>
        LET x == ev'.arg[1]
        IN IF ev'.origin \notin DOMAIN approvedOrigins
           THEN /\ ev'.reply = Error(4100, "Not connected")
                /\ UNCHANGED <<mem, storage, ioQ, bridgeQ, ports, nextReq, hist>>
           ELSE IF x \in {NoParams, EmptyParams, NoChainId}
           THEN /\ ev'.reply.kind = "error" /\ ev'.reply.code = -32602
                /\ UNCHANGED <<mem, storage, ioQ, bridgeQ, ports, nextReq, hist>>
           ELSE x \in {"0x1", "0x89", "0x38", "0xa", "0x2105", "0xa4b1"} =>
                /\ ev'.reply = Result(NullResult)
                /\ activeChainId' = x
                /\ ioQ' = Append(ioQ, SetOp(Snapshot(approvedOrigins, x, walletLocked,
                                               activeAccounts, pendingRequests), NoCont))
                /\ \A p \in Registered : ports'[p].last = "chainChanged:" \o x
                /\ \A p \in DOMAIN ports \ Registered : ports'[p] = ports[p]
                /\ UNCHANGED <<walletLocked, pendingRequests, approvedOrigins,
                               activeAccounts, contentPorts, nextReq, hist>> ]_vars

\* An approved page switched to a supported chain other than the default while
\* two channels were registered: both were told, the snapshot waits in the
\* storage queue or was written.
C12_Witness ==
  /\ ev.op = "dapp" /\ ev.method = "wallet_switchEthereumChain"
  /\ ev.reply = Result(NullResult) /\ ev.arg[1] = "0xa4b1"
  /\ activeChainId = "0xa4b1" /\ storage.present /\ storage.activeChainId = "0xa4b1"
  /\ Cardinality(Registered) = 2
  /\ \A p \in Registered : ports[p].last = "chainChanged:0xa4b1"
  /\ \E p \in Registered : ports[p].origin \notin DOMAIN approvedOrigins

\* C13: wallet_switchEthereumChain from an approved origin with a chain id
\* outside the supported set answers error 4902 (not -32602), leaves
\* activeChainId as it is in memory and in storage, and broadcasts nothing.
C13_UnknownChain ==
  [][ (SwitchCall /\ ev'.origin \in DOMAIN approvedOrigins
         /\ ev'.arg[1] \notin {NoParams, EmptyParams, NoChainId}
         /\ ev'.arg[1] \notin {"0x1", "0x89", "0x38", "0xa", "0x2105", "0xa4b1"}) =>
        /\ ev'.reply.kind = "error" /\ ev'.reply.code = 4902
        /\ UNCHANGED <<activeChainId, storage, ioQ, ports>> ]_vars

\* After a switch to a supported chain, a switch to an unknown one was refused
\* and the supported one is still active and stored.
C13_Witness ==
  /\ ev.op = "dapp" /\ ev.method = "wallet_switchEthereumChain"
  /\ ev.arg[1] = "0x5" /\ ev.reply = Error(4902, "Unrecognized chain ID")
  /\ activeChainId = "0x89" /\ storage.present /\ storage.activeChainId = "0x89"
  /\ \E p \in Registered : ports[p].last = "chainChanged:0x89"

\* Memory of a process instance in which no handler has assigned anything yet.
FreshMemory ==
  /\ walletLocked = TRUE /\ pendingRequests = EmptyMap /\ approvedOrigins = EmptyMap
  /\ activeChainId = DefaultChain /\ activeAccounts = NoAccounts

\* The step called persistState: one more write is queued.
PersistCalled ==
  /\ Len(ioQ') = Len(ioQ) + 1
  /\ ioQ'[Len(ioQ')].op = "set"

\* The step resumed the restoreState of a process start.
StartupRestored ==
  /\ ioQ # << >> /\ Head(ioQ).op = "get" /\ Head(ioQ).k.pc = "startup"
  /\ ioQ' # ioQ /\ kills' = kills

\* C14: for every session state, what persistState hands to storage, read back
\* by restoreState in a fresh process instance, gives the same walletLocked,
\* approvedOrigins, activeChainId, activeAccounts and pendingRequests.
C14_PersistRestoreRoundTrip ==
  [][ /\ PersistCalled =>
           LET d == ioQ'[Len(ioQ')].data
           IN /\ RestoredLocked(d) = walletLocked'
              /\ RestoredOrigins(d) = approvedOrigins'
              /\ RestoredChain(d) = activeChainId'
              /\ RestoredAccounts(d) = activeAccounts'
              /\ d.present /\ RestoredPending(d) = pendingRequests'
      /\ (StartupRestored /\ FreshMemory /\ storage.present) =>
           /\ walletLocked' = storage.walletLocked
           /\ approvedOrigins' = storage.approvedOrigins
           /\ activeChainId' = storage.activeChainId
           /\ activeAccounts' = storage.activeAccounts
           /\ pendingRequests' = storage.pendingRequests ]_vars

\* After a termination the new instance holds, restored, an unlocked wallet,
\* a grant, a switched chain, the accounts and a pending request, as stored.
C14_Witness ==
  /\ kills = 1 /\ ioQ = << >> /\ \A p \in DOMAIN ports : ~ports[p].open
  /\ ~walletLocked /\ approvedOrigins # EmptyMap /\ activeChainId = "0xa"
  /\ activeAccounts # NoAccounts /\ pendingRequests # EmptyMap
  /\ storage = Snapshot(approvedOrigins, activeChainId, walletLocked,
                        activeAccounts, pendingRequests)

\* The snapshot most recently handed to chrome.storage: the last write still
\* queued, or else what storage holds.
LastHanded ==
  LET sets == SelectSeq(ioQ, LAMBDA e : e.op = "set")
  IN IF sets # << >> THEN sets[Len(sets)].data ELSE storage

\* C15: every handler that changes session state calls persistState with the
\* changed snapshot before it suspends anywhere else: whenever the worker is
\* between tasks, memory holds no change that was not handed to storage.
C15_SavedBeforeSuspension ==
  IF LastHanded.present
  THEN LastHanded = Snapshot(approvedOrigins, activeChainId, walletLocked,
                             activeAccounts, pendingRequests)
  ELSE FreshMemory

\* An approve or reject naming r has been handled.
Resolving(r) == hist[r].via # ""

\* C16: an entry leaves pendingRequests only through __rusby_approve or
\* __rusby_reject naming its requestId: no other handler and no run of
\* restoreState interleaved with handlers removes or replaces an enqueued
\* entry, in memory (within a process instance) or in the persisted table.
C16_OnlyResolutionRemoves ==
  [][ /\ kills' = kills =>
           \A r \in DOMAIN pendingRequests :
              (r \notin DOMAIN pendingRequests' \/ pendingRequests'[r] # pendingRequests[r])
                => Resolving(r)'
      /\ \A r \in DOMAIN storage.pendingRequests :
              (r \notin DOMAIN storage'.pendingRequests
                 \/ storage'.pendingRequests[r] # storage.pendingRequests[r])
                => Resolving(r)' ]_vars

\* C17: for page-sourced and pairing-sourced requests alike, the write of the
\* pending table holding the new entry has completed before the approval
\* surface for its requestId is requested: while the request is unresolved
\* and its surface was requested, storage holds the entry.
C17_PersistedBeforeSurface ==
  \A r \in DOMAIN hist :
    (hist[r].popups > 0 /\ ~Resolving(r)) =>
       storage.present /\ r \in DOMAIN storage.pendingRequests

\* C18: a runtime message whose sender id is not the extension's own, or whose
\* target is not 'rusby-background', never reaches handlePopupMessage: when
\* every message is of that kind, no session state changes, no pending request
\* is resolved or answered, and no message gets a response.
C18_ForeignMessagesIgnored ==
  /\ walletLocked /\ approvedOrigins = EmptyMap /\ activeAccounts = NoAccounts
  /\ DOMAIN pendingRequests = DOMAIN hist
  /\ \A r \in DOMAIN hist : ~Resolving(r) /\ hist[r].msgs = {} /\ ~hist[r].done
  /\ storage.present =>
       /\ storage.walletLocked /\ storage.approvedOrigins = EmptyMap
       /\ \A r \in DOMAIN hist : hist[r].popups > 0 => r \in DOMAIN storage.pendingRequests
  /\ ev.op \notin {"init", "dapp"} => ev.op = "ignored" /\ ev.reply = NoReply

\* An approve naming a pending request, addressed to the background but sent
\* by another extension, was received: the request is still pending.
C18_Witness ==
  /\ ev.op = "ignored" /\ ev.method = "__rusby_approve"
  /\ ev.origin = "other-extension" /\ ev.arg = <<"rusby-background">>
  /\ ev.rid \in DOMAIN pendingRequests /\ hist[ev.rid].popups = 1

HasChannelKey(e) == e.tabId # NoTab
HasPairingFields(e) ==
  e.source = "walletconnect" /\ e.wcTopic # "" /\ e.wcRequestId # 0 /\ e.wcChainId # ""
NoPairingFields(e) ==
  e.source = "" /\ e.wcTopic = "" /\ e.wcRequestId = 0 /\ e.wcChainId = ""

\* C19: every entry of pendingRequests has either a tab key and no pairing
\* fields, or the pairing fields and no tab key, whichever port or session
\* call enqueued it, a port whose sender has no tab id included.
C19_ChannelKeyOrPairingFields ==
  \A r \in DOMAIN pendingRequests :
    LET e == pendingRequests[r]
    IN \/ HasChannelKey(e) /\ NoPairingFields(e)
       \/ ~HasChannelKey(e) /\ HasPairingFields(e)

\* C20: for every requestId the approval surface (the popup opened with
\* approve=<requestId>) is requested at most once over the whole execution,
\* for page-sourced and pairing-sourced requests and across restarts.
C20_SurfaceAtMostOnce ==
  \A r \in DOMAIN hist : hist[r].popups <= 1

\* A surface was requested for a page request and for a pairing request, one
\* of them before a termination; the earlier one was restored and is pending
\* in the new instance, the other one was rejected.
C20_Witness ==
  /\ kills = 1 /\ ioQ = << >>
  /\ \E r1, r2 \in DOMAIN hist :
       /\ PageSourced(r1) /\ ~PageSourced(r2)
       /\ hist[r1].popups = 1 /\ hist[r2].popups = 1
       /\ r1 \in DOMAIN pendingRequests /\ hist[r2].done

\* C21: when a page-sourced entry is approved or rejected while no channel is
\* registered under its tab key, nothing is posted to any channel, the entry
\* is removed from pendingRequests, the table without it is handed to
\* storage, and the handler answers ok once the write is done.
C21_NoChannelDropsResponse ==
  [][ (ev' # ev /\ ev'.op \in {"approve", "reject"} /\ ev'.reply = NoReply) =>
        LET r == ev'.rid
            e == pendingRequests[r]
        IN (e.source # "walletconnect" /\ e.tabId \notin DOMAIN contentPorts) =>
             /\ hist'[r].msgs = hist[r].msgs /\ hist'[r].posts = hist[r].posts
             /\ ports' = ports
             /\ pendingRequests' = [x \in DOMAIN pendingRequests \ {r} |->
                                      pendingRequests[x]]
             /\ PersistCalled
             /\ ioQ'[Len(ioQ')].data.pendingRequests = pendingRequests'
             /\ ioQ'[Len(ioQ')].k = Cont("return_ok", r, ev'.op) ]_vars

\* A page request was approved after its page had disconnected: nothing was
\* posted, the handler returned ok, the entry is gone from memory and storage.
C21_Witness ==
  /\ ev.op = "approve" /\ ev.reply = NoReply /\ PageSourced(ev.rid)
  /\ hist[ev.rid].done /\ hist[ev.rid].posts = 0 /\ hist[ev.rid].popups = 1
  /\ ev.rid \notin DOMAIN pendingRequests
  /\ storage.present /\ ev.rid \notin DOMAIN storage.pendingRequests
  /\ ev.origin \in DOMAIN storage.approvedOrigins

\* The step resumed a resolution handler suspended in the bridge call for r.
BridgeSettled(r) ==
  /\ Len(bridgeQ') = Len(bridgeQ) - 1 /\ kills' = kills
  /\ \E i \in DOMAIN bridgeQ :
       /\ bridgeQ[i].pc = "delete" /\ bridgeQ[i].rid = r
       /\ bridgeQ' = [j \in 1..(Len(bridgeQ) - 1) |->
                        IF j < i THEN bridgeQ[j] ELSE bridgeQ[j + 1]]

\* The step removed r from the table and handed the table to storage, and the
\* handler will answer the approval surface when the write is done.
RemovedAndSaved(r) ==
  /\ r \notin DOMAIN pendingRequests'
  /\ PersistCalled
  /\ ioQ'[Len(ioQ')].data.pendingRequests = pendingRequests'
  /\ ioQ'[Len(ioQ')].k.pc = "return_ok" /\ ioQ'[Len(ioQ')].k.rid = r

\* C22: a failing delivery is swallowed.  When the registered channel throws
\* on postMessage, or the bridge's respond/reject call fails, the entry is
\* still removed, the table persisted and the approval surface answered.
C22_DeliveryFailureSwallowed ==
  [][ /\ (ev' # ev /\ ev'.op \in {"approve", "reject"}
            /\ ev'.rid \in DOMAIN pendingRequests
            /\ ~UsesBridge(pendingRequests[ev'.rid])) => RemovedAndSaved(ev'.rid)
      /\ \A r \in DOMAIN hist : BridgeSettled(r) => RemovedAndSaved(r) ]_vars

\* The step is the failure of chrome.windows.create for request r.
OpenFailed(r) == hist'[r].failed /\ ~hist[r].failed

\* C23: when opening the approval surface fails during enqueue the error is
\* swallowed: the pending table is left as it was, the new entry is in the
\* stored table and is listed by __rusby_get_pending, and nothing is sent to
\* the page (the dispatcher outcome stays deferred).
C23_OpenFailureSwallowed ==
  [][ \A r \in DOMAIN hist :
        (OpenFailed(r) /\ PageSourced(r)) =>
          /\ pendingRequests' = pendingRequests
          /\ storage'.present /\ r \in DOMAIN storage'.pendingRequests
          /\ storage'.pendingRequests[r] = hist[r].entry
          /\ (r \in DOMAIN pendingRequests => hist[r].entry \in GetPending')
          /\ hist'[r].popups = 0 /\ hist'[r].posts = hist[r].posts
          /\ ports' = ports /\ ev' = ev ]_vars

C23_Witness ==
  \E r \in DOMAIN hist :
    /\ PageSourced(r) /\ hist[r].failed /\ hist[r].popups = 0 /\ hist[r].via = ""
    /\ r \in DOMAIN pendingRequests /\ pendingRequests[r] \in GetPending
    /\ storage.present /\ r \in DOMAIN storage.pendingRequests
    /\ ev.op = "dapp" /\ ev.rid = r /\ ev.reply = Deferred

\* The step is __rusby_lock_state up to its await; the step resumes it.
LockCalled == PersistCalled /\ ioQ'[Len(ioQ')].k.pc = "lock_broadcast"
LockResumed ==
  /\ ioQ # << >> /\ Head(ioQ).op = "set" /\ Head(ioQ).k.pc = "lock_broadcast"
  /\ ioQ' = Tail(ioQ)

C25_RestoreDefaults ==
  [][ StartupRestored =>
        /\ ~storage.present =>
              /\ walletLocked' = TRUE /\ activeChainId' = "0x1"
              /\ approvedOrigins' = EmptyMap /\ activeAccounts' = NoAccounts
              /\ pendingRequests' = pendingRequests
              /\ FreshMemory => pendingRequests' = EmptyMap
        /\ walletLocked' = FALSE <=> (storage.present /\ storage.walletLocked = FALSE)
    ]_vars

C25_Witness ==
  /\ kills = 1 /\ ioQ = << >> /\ ~storage.present
  /\ walletLocked = TRUE /\ activeChainId = "0x1" /\ approvedOrigins = EmptyMap
  /\ activeAccounts = NoAccounts /\ pendingRequests = EmptyMap
  /\ \E p \in DOMAIN ports : ~ports[p].open

C25_WitnessUnlocked ==
  /\ kills = 1 /\ ioQ = << >>
  /\ storage.present /\ storage.walletLocked = FALSE /\ walletLocked = FALSE

\* C26: wallet_addEthereumChain and every method outside the supported
\* vocabulary are answered at once with an error of code 4200, whatever the
\* lock state and the origin's authorization; no entry is created, no surface
\* opened and no session state changed.
C26_UnsupportedMethods ==
  [][ (Handled("dapp") /\ ev'.method \notin SupportedMethods) =>
        /\ ev'.reply.kind = "error" /\ ev'.reply.code = 4200
        /\ ev'.reply.message = IF ev'.method = "wallet_addEthereumChain"
                                THEN "Custom chains not supported"
                                ELSE "Method not supported: " \o ev'.method
        /\ UNCHANGED <<mem, storage, ioQ, bridgeQ, ports, nextReq, hist>> ]_vars

C26_Witness ==
  /\ ev.op = "dapp" /\ ev.method = "wallet_addEthereumChain"
  /\ ev.reply.kind = "error" /\ ev.reply.code = 4200
  /\ ~walletLocked /\ Authorized(ev.origin)
  /\ pendingRequests = EmptyMap /\ ioQ = << >>

\* eth_chainId answers the active chain id and net_version its decimal form.
ChainQueriesAnswered ==
  [][ /\ (Handled("dapp") /\ ev'.method = "eth_chainId") =>
            ev'.reply = Result(<<activeChainId>>)
      /\ (Handled("dapp") /\ ev'.method = "net_version") =>
            (ev'.reply.kind = "result" /\
             (activeChainId = "0x89" => ev'.reply.result = <<"137">>)) ]_vars

\* The step resumed initWalletConnect after its read of wc_project_id.
ProjectIdRead ==
  /\ ioQ # << >> /\ Head(ioQ).op = "get" /\ Head(ioQ).k.pc = "wc_pid"
  /\ ioQ' = Tail(ioQ)

\* C27: while the pairing bridge is not initialized, every __rusby_wc_* method
\* that would call the bridge answers 'WalletConnect not initialized', calls
\* nothing and changes nothing, and __rusby_wc_get_sessions answers the empty
\* set; initWalletConnect without a stored project id leaves the bridge
\* uninitialized and registers no event listener.
C27_NotInitialized ==
  [][ /\ (Handled("wc") /\ ~wcInitialized) =>
            /\ ev'.reply = IF ev'.method = "__rusby_wc_get_sessions"
                            THEN Result(<<>>)
                            ELSE PopupError("WalletConnect not initialized")
            /\ UNCHANGED <<mem, storage, wcProjectId, ioQ, bridgeQ, ports, nextReq,
                           kills, outside, hist>>
      /\ (ProjectIdRead /\ wcProjectId = NoPid) =>
            /\ bridgeQ' = bridgeQ
            /\ wcInitialized' = wcInitialized /\ wcListeners' = wcListeners
      /\ wcProjectId = NoPid => (~wcInitialized' /\ wcListeners' = 0) ]_vars

C27_Witness ==
  /\ wcProjectId = NoPid /\ ioQ = << >> /\ bridgeQ = << >>
  /\ ~wcInitialized /\ wcListeners = 0
  /\ ev.op = "wc" /\ ev.method = "__rusby_wc_approve_proposal"
  /\ ev.reply = PopupError("WalletConnect not initialized")

\* The step resumed the handler of method m for proposal id after its bridge
\* call settled.
WcSettled(m, id) ==
  /\ Len(bridgeQ') = Len(bridgeQ) - 1 /\ kills' = kills
  /\ \E i \in DOMAIN bridgeQ :
       /\ bridgeQ[i] = Cont("wc_call", id, m)
       /\ bridgeQ' = [j \in 1..(Len(bridgeQ) - 1) |->
                        IF j < i THEN bridgeQ[j] ELSE bridgeQ[j + 1]]
  /\ ev'.op = "wc_done" /\ ev'.method = m /\ ev'.id = id

\* C28: a proposal stays in wcPendingProposals from its session_proposal
\* event until __rusby_wc_approve_proposal or __rusby_wc_reject_proposal for
\* its id succeeds; when the bridge call fails the table is left as it was
\* and the error message is returned; the table is not in storage, a restart
\* empties it and restoreState does not refill it.
C28_ProposalLifetime ==
  [][ /\ \A id \in DOMAIN wcPendingProposals :
            id \notin DOMAIN wcPendingProposals' =>
              \/ kills' # kills
              \/ \E m \in ProposalMethods : WcSettled(m, id) /\ ev'.reply = PopupOk
      /\ \A id \in ProposalIds, m \in ProposalMethods :
            WcSettled(m, id) =>
              IF ev'.reply = PopupOk
              THEN wcPendingProposals' = Without(wcPendingProposals, id)
              ELSE /\ wcPendingProposals' = wcPendingProposals
                   /\ ev'.reply = PopupError("e.message")
      /\ kills' # kills => wcPendingProposals' = EmptyMap
      /\ (ioQ # << >> /\ ioQ' = Tail(ioQ)) => wcPendingProposals' = wcPendingProposals
    ]_vars

C28_Witness ==
  /\ ev.op = "wc_done" /\ ev.method = "__rusby_wc_approve_proposal"
  /\ ev.reply = PopupError("e.message")
  /\ ev.id \in DOMAIN wcPendingProposals
  /\ \E id \in ProposalIds : id \notin DOMAIN wcPendingProposals
  /\ kills = 0

C28_WitnessRestart ==
  /\ kills = 1 /\ wcPendingProposals = EmptyMap /\ ioQ = << >> /\ wcInitialized
  /\ ev.op = "wc_done" /\ ev.reply = PopupError("e.message")

\* The step performs the write made by the enqueue of request r.
EnqueueWritten(r) ==
  /\ ioQ # << >> /\ Head(ioQ).op = "set"
  /\ Head(ioQ).k.pc = "open_popup" /\ Head(ioQ).k.rid = r
  /\ ioQ' = Tail(ioQ)

\* C29: a request deferred while the startup restoreState has not finished
\* does not overwrite the stored session with the in-memory defaults: the
\* write it causes leaves the stored approvedOrigins, activeChainId,
\* walletLocked and activeAccounts as they were.
C29_EarlyRequestKeepsStored ==
  [][ \A r \in DOMAIN hist :
        (EnqueueWritten(r) /\ hist[r].early /\ storage.present) =>
          /\ storage'.approvedOrigins = storage.approvedOrigins
          /\ storage'.activeChainId = storage.activeChainId
          /\ storage'.walletLocked = storage.walletLocked
          /\ storage'.activeAccounts = storage.activeAccounts ]_vars

\* C30: for each pairing-sourced pending request the bridge's respondRequest
\* or rejectRequest for its (wcTopic, wcRequestId) is called at most once in
\* total, however the __rusby_approve and __rusby_reject handlers naming its
\* requestId interleave.
C30_BridgeCalledAtMostOnce ==
  \A r \in DOMAIN hist :
    ~PageSourced(r) => hist[r].bridge <= 1 /\ Cardinality(hist[r].calls) <= 1

\* C31: once channel B is registered for a tab, replacing an earlier channel A
\* of the same tab, a disconnect of A does not remove B: while the channel
\* connected last for a tab is open, the registry maps the tab to it.
C31_LatestChannelRegistered ==
  \A p \in DOMAIN ports :
    (/\ ports[p].open /\ ports[p].tab # NoTab
     /\ \A q \in DOMAIN ports : q > p => ports[q].tab # ports[p].tab)
      => /\ ports[p].tab \in DOMAIN contentPorts
         /\ contentPorts[ports[p].tab] = p

\* The page that sent request r got a response carrying its call id.
Answered(r) == \E m \in hist[r].msgs : m.id = hist[r].entry.id

\* C32: when a deferred page request is approved or rejected while its page is
\* still open, the page eventually receives a response carrying its call id,
\* also when the service worker was terminated and restarted between the
\* enqueue and the resolution.
C32_ResolvedIsAnswered ==
  \A r \in 1..MaxReq :
    (r \in DOMAIN hist /\ Resolving(r)) ~> (r \in DOMAIN hist /\ Answered(r))

\* C33: each session_request event creates exactly one pending entry and
\* requests exactly one approval surface, however the startup
\* initWalletConnect and the one started by __rusby_wc_set_project_id
\* interleave: the event listeners are registered at most once per process.
C33_OneEntryPerSessionRequest ==
  [][ /\ (nextReq' > nextReq /\ hist'[nextReq'].entry.source = "walletconnect") =>
            /\ nextReq' = nextReq + 1
            /\ DOMAIN pendingRequests' = DOMAIN pendingRequests \cup {nextReq'}
            /\ hist'[nextReq'].popups = 1
      /\ wcListeners' <= 1 ]_vars

\* C34: __rusby_approve delivers the result of an eth_sendTransaction,
\* personal_sign or eth_signTypedData_v4 request to a page channel only while
\* the wallet is unlocked and the request's origin is in approvedOrigins.
C34_ResultOnlyWhileAuthorized ==
  [][ (/\ ev' # ev /\ ev'.op = "approve" /\ ev'.method \in SignMethods
       /\ ev'.rid \in DOMAIN hist
       /\ hist'[ev'.rid].posts > hist[ev'.rid].posts)
        => (~walletLocked /\ Authorized(ev'.origin)) ]_vars

\* The step is __rusby_revoke_origin up to its await; the step resumes it.
RevokeCalled == PersistCalled /\ ioQ'[Len(ioQ')].k.pc = "revoke_broadcast"
RevokeResumed ==
  /\ ioQ # << >> /\ Head(ioQ).op = "set" /\ Head(ioQ).k.pc = "revoke_broadcast"
  /\ ioQ' = Tail(ioQ)

\* C35: __rusby_revoke_origin removes the origin from approvedOrigins,
\* persists, and sends accountsChanged([]) to the channels of the pages of
\* that origin; channels of pages of other, still approved origins get no
\* accountsChanged([]) from the revocation.
C35_RevokeNotifiesOnlyItsOrigin ==
  [][ /\ RevokeCalled =>
           /\ DOMAIN approvedOrigins' \subseteq DOMAIN approvedOrigins
           /\ Cardinality(DOMAIN approvedOrigins \ DOMAIN approvedOrigins') <= 1
           /\ ioQ'[Len(ioQ')].data.approvedOrigins = approvedOrigins'
      /\ RevokeResumed =>
           \A p \in Registered :
             IF ports[p].origin \in DOMAIN Head(ioQ).data.approvedOrigins
             THEN ports'[p] = ports[p]
             ELSE ports[p].origin \in DOMAIN storage.approvedOrigins
                    => ports'[p].last = "accountsChanged:[]" ]_vars

\* C36: in every reachable state walletLocked = true implies that
\* activeAccounts is empty, in memory and in the stored snapshot, after any
\* sequence of __rusby_lock_state and __rusby_set_accounts messages.
C36_LockedMeansNoAccounts ==
  /\ walletLocked => activeAccounts = NoAccounts
  /\ (storage.present /\ storage.walletLocked) => storage.activeAccounts = NoAccounts

\* The step resumed a restoreState.
Rehydrated ==
  /\ ioQ # << >> /\ Head(ioQ).op = "get" /\ Head(ioQ).k.pc \in {"startup", "restore"}
  /\ ioQ' \in {Tail(ioQ), Append(Tail(ioQ), GetOp(Cont("wc_pid", 0, "")))}

\* C37: approvedOrigins changes only in two ways: __rusby_approve of a pending
\* eth_requestAccounts entry sets the entry's origin, __rusby_revoke_origin
\* deletes the named origin.  Every other operation leaves it unchanged (the
\* rehydration by restoreState aside).
C37_ApprovedOriginsFrame ==
  [][ approvedOrigins' # approvedOrigins =>
        \/ /\ ev' # ev /\ ev'.op = "approve" /\ ev'.method = "eth_requestAccounts"
           /\ ev'.rid \in DOMAIN pendingRequests
           /\ approvedOrigins' = With(approvedOrigins, ev'.origin, ev'.arg)
        \/ /\ RevokeCalled
           /\ \E o \in DOMAIN approvedOrigins :
                approvedOrigins' = Without(approvedOrigins, o)
        \/ Rehydrated /\ approvedOrigins' = RestoredOrigins(storage) ]_vars

C37_Witness ==
  /\ ev.op = "approve" /\ ev.method = "personal_sign" /\ ev.arg = SigResult
  /\ ev.origin \notin DOMAIN approvedOrigins
  /\ HomeOrigin \in DOMAIN approvedOrigins
  /\ hist[ev.rid].via = "bridge"
  /\ ~walletLocked /\ activeAccounts # NoAccounts

\* C38: in the injected provider every request() promise settles exactly once:
\* ids are drawn one after the other, each greater than every id drawn before;
\* a promise is settled only while its entry is pending and never a second time,
\* by a response carrying its id (resolve with the result, or reject with the
\* error's code) or by its timer; a response whose id is not pending changes
\* nothing of the provider; and every pending request is settled eventually.
Settlements(p, id) == IF id \in DOMAIN p.settled THEN p.settled[id] ELSE << >>
ProviderState(p) == [p EXCEPT !.last = NewProvider.last, !.timers = {}]

C38_SettlesOnce ==
  /\ [][ /\ provider'.requestId \in {provider.requestId, provider.requestId + 1}
         /\ provider'.requestId # provider.requestId =>
               /\ provider'.last.op = "request"
               /\ provider'.last.id = provider'.requestId
               /\ \A i \in DOMAIN provider.settled : i < provider'.requestId
               /\ DOMAIN provider'.settled = DOMAIN provider.settled \cup {provider'.requestId}
               /\ provider'.requestId \in DOMAIN provider'.pending
         /\ \A id \in DOMAIN provider'.settled :
               /\ Len(provider'.settled[id]) <= 1
               /\ (id \in DOMAIN provider.settled
                     /\ provider'.settled[id] # provider.settled[id]) =>
                     /\ provider.settled[id] = << >>
                     /\ id \in DOMAIN provider.pending
                     /\ id \notin DOMAIN provider'.pending
                     /\ provider'.last.id = id
                     /\ LET o == provider'.settled[id][1]
                            msg == provider'.last.msg
                        IN \/ /\ provider'.last.op = "timeout"
                              /\ o = TimedOut
                           \/ /\ provider'.last.op = "response"
                              /\ msg.kind = "result"
                              /\ o.how = "resolve" /\ o.result = msg.result
                           \/ /\ provider'.last.op = "response"
                              /\ msg.kind = "error"
                              /\ o.how = "reject"
                              /\ msg.code # 0 => o.code = msg.code
         /\ (provider'.last # provider.last /\ provider'.last.op = "response") =>
               IF provider'.last.id \in DOMAIN provider.pending
               THEN Len(provider'.settled[provider'.last.id]) = 1
               ELSE ProviderState(provider') = ProviderState(provider)
       ]_vars
  /\ \A id \in 1..MaxProviderReq :
        (id \in DOMAIN provider.pending) ~> (Len(Settlements(provider, id)) = 1)

\* one promise resolved by its response, another rejected by its timer, and a
\* later error response for the resolved one ignored
C38_Witness ==
  /\ provider.requestId = 2
  /\ provider.settled[1] # << >> /\ provider.settled[1][1].how = "resolve"
  /\ provider.settled[2] = <<TimedOut>>
  /\ provider.last.op = "response" /\ provider.last.id = 1
  /\ provider.last.msg.kind = "error"
  /\ provider.timers = {1}

\* C39: the keys seen through the pairing client's storage adapter (getKeys,
\* getEntries) are exactly the keys written through setItem and not removed
\* since, with the values written; nothing the background stored itself, the
\* project id included, is among them; and getItem returns what setItem
\* stored, null for a key that was never set or was removed.
C39_AdapterSeesOnlyItsOwn ==
  /\ GetKeys = DOMAIN written
  /\ GetEntries = written
  /\ \A key \in AdapterKeys \cup GetKeys :
        GetItem(key) = IF key \in DOMAIN written THEN written[key] ELSE Null

====
